---------------------------- MODULE ClusterProofs ----------------------------
(***************************************************************************)
(* Proofs about the components between the controller and those around it, *)
(* as MCCluster puts them together: for every value of the constants that  *)
(* its runs give values to.                                                *)
(***************************************************************************)
EXTENDS MCCluster, Integers, SequenceTheorems, FiniteSetTheorems, TLAPS

\* A behaviour stays one of its component, and takes that component's steps.
LEMMA StepsOfParts ==
  ASSUME [Next]_vars
  PROVE  /\ UNCHANGED part
         /\ part = "watch" => [Ow!Next]_(Ow!vars)
         /\ part = "steam" => [Sm!Next]_(Sm!vars)
         /\ part = "registry" => [Rg!Next]_(Rg!vars)
         /\ part = "nodes" => [Nc!Next]_(Nc!vars)
         /\ part = "proxy" => [Px!Next]_(Px!vars)
         /\ part = "routes" => [Rt!Next]_(Rt!vars)
         /\ part = "udp" => [Ud!Next]_(Ud!vars)
         /\ part = "link" => [Lk!Next]_(Lk!vars)
         /\ part = "container" => [Cn!Next]_(Cn!vars)
         /\ part = "containers" => [Cf!Next]_(Cf!vars)
         /\ part = "stats" => [Tl!Next]_(Tl!vars)
         /\ part = "query" => [Qu!Next]_(Qu!vars)
         /\ part = "queries" => [Qo!Next]_(Qo!vars)
         /\ part = "enroll" => [En!Next]_(En!vars)
         /\ part = "authority" => [Ea!Next]_(Ea!vars)
<1>1. CASE UNCHANGED vars
  BY <1>1 DEF vars, watchVars, steamVars, registryVars, nodeVars, proxyVars, udpVars,
              linkVars, containerVars, statVars, queryVars, enrolVars,
              Ow!vars, Sm!vars, Rg!vars, Nc!vars, Px!vars, Rt!vars, Ud!vars, Lk!vars,
              Cn!vars, Cf!vars, Tl!vars, Qu!vars, Qo!vars, En!vars, Ea!vars
<1>2. CASE Next
  BY <1>2 DEF Next
<1> QED BY <1>1, <1>2

-----------------------------------------------------------------------------
(* The operation streams, for any number of watchers and operations.         *)

OpPcs ==
  {"none", "phase", "tell", "telling", "work", "launched", "cleared", "clearing", "ended"}
Notices == [val : {-1} \cup (0..MaxOps), todo : SUBSET Watchers, drained : SUBSET Watchers]

WatchTypes ==
  /\ operation \in 0..MaxOps /\ ops \in 0..MaxOps
  /\ goroutine \in [1..MaxOps -> OpPcs] /\ event \in {"idle", "cleared", "telling"}
  /\ note \in [0..MaxOps -> Notices]
  /\ watcher \in [Watchers -> {"none", "watching", "looping", "gone"}]
  /\ chan \in [Watchers -> {<< >>} \cup {<<v>> : v \in 0..MaxOps}]
  /\ shown \in [Watchers -> {-1} \cup (0..MaxOps)]

\* A notice that the operations are over is still to come to w: nobody has begun
\* it, w has not been drained for it, or nothing stands in its way.
ToBegin == event = "cleared" \/ \E o \in 1..MaxOps : goroutine[o] = "cleared"
ToCome(w) ==
  \E n \in 0..MaxOps :
    /\ w \in note[n].todo
    /\ w \in note[n].drained => chan[w] \in {<< >>, <<0>>}

\* What w will end up with, while there is no operation.
Settles(w) ==
  \/ ToBegin
  \/ ToCome(w)
  \/ chan[w] = <<0>>
  \/ chan[w] = << >> /\ (watcher[w] = "watching" \/ shown[w] = 0)

\* At most one operation is under way and it is the one recorded; only it gives
\* notice of a phase, only those over give notice that nothing goes on, each only
\* to watchers that are there.
WatchInv ==
  /\ WatchTypes
  /\ \A o \in 1..MaxOps :
        /\ o > ops => goroutine[o] = "none"
        /\ goroutine[o] \in {"phase", "tell", "telling", "work"} => operation = o
        /\ note[o].todo # {} =>
              \/ goroutine[o] = "telling" /\ note[o].val = o
              \/ goroutine[o] = "clearing" /\ note[o].val = 0
  /\ note[0].todo # {} => event = "telling" /\ note[0].val = 0
  /\ \A w \in Watchers :
        /\ \A n \in 0..MaxOps : w \in note[n].todo => watcher[w] \in {"watching", "looping"}
        /\ watcher[w] = "none" => chan[w] = << >>
        /\ operation = 0 /\ watcher[w] \in {"watching", "looping"} => Settles(w)

\* The notifiers are the event handler and the operations.
LEMMA NotifiersAre == Ow!Notifiers = 0..MaxOps /\ Ow!Ops = 1..MaxOps
BY StreamAssumption DEF Ow!Notifiers, Ow!Ops, Ow!EventHandler

\* While there is no operation nobody gives notice of a phase.
LEMMA OnlyClearing ==
  ASSUME WatchInv, operation = 0, NEW n \in 0..MaxOps, note[n].todo # {}
  PROVE  note[n].val = 0
<1>1. n = 0 \/ n \in 1..MaxOps
  BY StreamAssumption
<1> QED BY <1>1 DEF WatchInv

\* An operation begins: until it ends nothing is said of what clients see.
LEMMA SubmitKeeps == ASSUME WatchInv, Ow!Submit PROVE WatchInv'
<1>1. PICK o \in 1..MaxOps : o = ops + 1
  BY StreamAssumption DEF WatchInv, WatchTypes, Ow!Submit
<1>2. /\ operation = 0 /\ ops' = o /\ operation' = o
      /\ goroutine' = [goroutine EXCEPT ![o] = "phase"]
      /\ UNCHANGED <<event, note, watcher, chan, shown>>
  BY <1>1 DEF Ow!Submit, Ow!Idle
<1>3. goroutine[o] = "none"
  BY <1>1, StreamAssumption DEF WatchInv, WatchTypes
<1>4. \A i \in 1..MaxOps : goroutine[i] \notin {"phase", "tell", "telling", "work"}
  BY <1>2, StreamAssumption DEF WatchInv
<1>5. WatchTypes'
  BY <1>2, StreamAssumption DEF WatchInv, WatchTypes, OpPcs
<1>6. \A i \in 1..MaxOps :
        /\ i > ops' => goroutine'[i] = "none"
        /\ goroutine'[i] \in {"phase", "tell", "telling", "work"} => operation' = i
        /\ note[i].todo # {} =>
              \/ goroutine'[i] = "telling" /\ note[i].val = i
              \/ goroutine'[i] = "clearing" /\ note[i].val = 0
  <2> TAKE i \in 1..MaxOps
  <2>1. CASE i = o
    BY <1>1, <1>2, <1>3, <2>1, StreamAssumption DEF WatchInv, WatchTypes
  <2>2. CASE i # o
    <3>1. goroutine'[i] = goroutine[i]
      BY <1>2, <2>2 DEF WatchInv, WatchTypes
    <3>2. i > ops' => i > ops
      BY <1>1, <1>2, StreamAssumption DEF WatchInv, WatchTypes
    <3> QED BY <1>4, <3>1, <3>2 DEF WatchInv
  <2> QED BY <2>1, <2>2
<1>7. operation' # 0
  BY <1>2
<1> QED BY <1>2, <1>5, <1>6, <1>7 DEF WatchInv

\* What an operation's goroutine does between its notices.
LEMMA GoroutineKeeps ==
  ASSUME WatchInv, NEW o \in 1..MaxOps, NEW p \in OpPcs,
         goroutine' = [goroutine EXCEPT ![o] = p], goroutine[o] # "none",
         UNCHANGED <<ops, event, note, watcher, chan, shown>>, note[o].todo = {},
         p \in {"phase", "tell", "telling", "work"} => operation' = o,
         operation' \in {0, operation}, goroutine[o] # "cleared",
         operation' # operation => operation = o /\ p = "cleared"
  PROVE  WatchInv'
<1>1. goroutine'[o] = p /\ \A i \in 1..MaxOps : i # o => goroutine'[i] = goroutine[i]
  BY DEF WatchInv, WatchTypes
<1>2. WatchTypes'
  BY StreamAssumption DEF WatchInv, WatchTypes
<1>3. \A i \in 1..MaxOps :
        /\ i > ops => goroutine'[i] = "none"
        /\ goroutine'[i] \in {"phase", "tell", "telling", "work"} => operation' = i
        /\ note[i].todo # {} =>
              \/ goroutine'[i] = "telling" /\ note[i].val = i
              \/ goroutine'[i] = "clearing" /\ note[i].val = 0
  BY <1>1 DEF WatchInv
<1>4. ASSUME NEW w \in Watchers, operation' = 0, watcher[w] \in {"watching", "looping"}
      PROVE  Settles(w)'
  <2>1. CASE operation # 0
    <3>1. goroutine'[o] = "cleared"
      BY <1>1, <1>4, <2>1
    <3> QED BY <3>1 DEF Settles, ToBegin
  <2>2. CASE operation = 0
    <3>1. Settles(w)
      BY <1>4, <2>2 DEF WatchInv
    <3>2. ToBegin => ToBegin'
      BY <1>1 DEF ToBegin
    <3> QED BY <3>1, <3>2 DEF Settles, ToCome
  <2> QED BY <2>1, <2>2
<1> QED BY <1>2, <1>3, <1>4 DEF WatchInv

\* The event that an operation is ready ends it: notice is to come.
LEMMA EventKeeps == ASSUME WatchInv, Ow!ProcessEvent PROVE WatchInv'
<1>1. /\ event = "idle" /\ operation' = 0 /\ event' = "cleared"
      /\ operation \in 1..MaxOps /\ goroutine[operation] = "launched"
      /\ UNCHANGED <<ops, goroutine, note, watcher, chan, shown>>
  BY StreamAssumption DEF Ow!ProcessEvent, Ow!Idle, WatchInv, WatchTypes
<1>2. \A o \in 1..MaxOps : goroutine[o] \notin {"phase", "tell", "telling", "work"}
  BY <1>1 DEF WatchInv
<1>3. WatchTypes'
  BY <1>1, StreamAssumption DEF WatchInv, WatchTypes
<1>4. \A w : Settles(w)'
  BY <1>1 DEF Settles, ToBegin
<1> QED BY <1>1, <1>2, <1>3, <1>4 DEF WatchInv

\* A notice begins, for every watcher that is there, or has been given to all.
LEMMA NoticeKeeps ==
  ASSUME WatchInv, NEW n \in 0..MaxOps, NEW m \in Notices, note' = [note EXCEPT ![n] = m],
         UNCHANGED <<operation, ops, watcher, chan, shown>>, note[n].todo = {},
         goroutine' \in [1..MaxOps -> OpPcs], event' \in {"idle", "cleared", "telling"},
         \A o \in 1..MaxOps :
            /\ o # n => goroutine'[o] = goroutine[o]
            /\ o = n => /\ goroutine[o] # "none"
                        /\ goroutine'[o] \in {"phase", "tell", "telling", "work"} =>
                              goroutine[o] \in {"phase", "tell", "telling", "work"}
                        /\ m.todo # {} => \/ goroutine'[o] = "telling" /\ m.val = o
                                          \/ goroutine'[o] = "clearing" /\ m.val = 0,
         n # 0 => UNCHANGED event,
         n = 0 => (m.todo # {} => event' = "telling" /\ m.val = 0),
         m.todo \subseteq Ow!Registered, m.drained = {},
         ToBegin => ToBegin' \/ m.todo = Ow!Registered
  PROVE  WatchInv'
<1>1. note'[n] = m /\ \A i \in 0..MaxOps : i # n => note'[i] = note[i]
  BY DEF WatchInv, WatchTypes
<1>2. WatchTypes'
  BY DEF WatchInv, WatchTypes
<1>3. \A i \in 1..MaxOps : i \in 0..MaxOps
  BY StreamAssumption
<1>4. ASSUME NEW i \in 1..MaxOps
      PROVE  /\ i > ops => goroutine'[i] = "none"
             /\ goroutine'[i] \in {"phase", "tell", "telling", "work"} => operation' = i
             /\ note'[i].todo # {} =>
                   \/ goroutine'[i] = "telling" /\ note'[i].val = i
                   \/ goroutine'[i] = "clearing" /\ note'[i].val = 0
  BY <1>1, <1>3 DEF WatchInv
<1>5. note'[0].todo # {} => event' = "telling" /\ note'[0].val = 0
  <2>1. 0 \in 0..MaxOps
    BY StreamAssumption
  <2> QED BY <1>1, <2>1 DEF WatchInv
<1>6. \A w \in Watchers, i \in 0..MaxOps :
        w \in note'[i].todo => watcher[w] \in {"watching", "looping"}
  BY <1>1 DEF WatchInv, Ow!Registered
<1>7. ASSUME NEW w \in Watchers, operation = 0, watcher[w] \in {"watching", "looping"}
      PROVE  Settles(w)'
  <2>1. Settles(w)
    BY <1>7 DEF WatchInv
  <2>2. ToCome(w) => ToCome(w)'
    BY <1>1 DEF ToCome
  <2>3. m.todo = Ow!Registered => ToCome(w)'
    BY <1>1, <1>7 DEF ToCome, Ow!Registered
  <2> QED BY <2>1, <2>2, <2>3 DEF Settles
<1> QED BY <1>2, <1>4, <1>5, <1>6, <1>7 DEF WatchInv

\* The notices of an operation and of the event handler, from begin to end.
LEMMA TellKeeps ==
  ASSUME WatchInv,
         \/ Ow!TellEvent \/ Ow!EventTold
         \/ \E o \in 1..MaxOps :
              Ow!TellPhase(o) \/ Ow!PhaseTold(o) \/ Ow!TellCleared(o) \/ Ow!ClearTold(o)
  PROVE  WatchInv'
<1>1. Ow!NoNote \in Notices /\ Ow!NoNote.todo = {} /\ Ow!NoNote.drained = {}
  BY DEF Ow!NoNote, Notices
<1>2. \A v \in 0..MaxOps : [val |-> v, todo |-> Ow!Registered, drained |-> {}] \in Notices
  BY DEF Notices, Ow!Registered
<1>3. 0 \in 0..MaxOps /\ \A o \in 1..MaxOps : o \in 0..MaxOps /\ o # 0
  BY StreamAssumption
<1>4. CASE Ow!TellEvent
  <2>1. PICK m \in Notices : m = [val |-> 0, todo |-> Ow!Registered, drained |-> {}]
    BY <1>2, <1>3
  <2>2. /\ note' = [note EXCEPT ![0] = m] /\ event' = "telling"
        /\ UNCHANGED <<operation, ops, goroutine, watcher, chan, shown>>
    BY <1>4, <2>1 DEF Ow!TellEvent, Ow!Begin, Ow!EventHandler, Ow!Idle
  <2>3. note[0].todo = {}
    BY <1>4 DEF Ow!TellEvent, WatchInv
  <2>4. m.val = 0 /\ m.todo = Ow!Registered /\ m.drained = {}
    BY <2>1
  <2>5. goroutine' \in [1..MaxOps -> OpPcs]
    BY <2>2 DEF WatchInv, WatchTypes
  <2> QED BY <1>3, <2>2, <2>3, <2>4, <2>5, NoticeKeeps
<1>5. CASE Ow!EventTold
  <2>1. /\ note' = [note EXCEPT ![0] = Ow!NoNote] /\ event' = "idle" /\ event = "telling"
        /\ note[0].todo = {}
        /\ UNCHANGED <<operation, ops, goroutine, watcher, chan, shown>>
    BY <1>5 DEF Ow!EventTold, Ow!EventHandler
  <2>2. ToBegin => ToBegin'
    BY <2>1 DEF ToBegin
  <2>3. goroutine' \in [1..MaxOps -> OpPcs]
    BY <2>1 DEF WatchInv, WatchTypes
  <2> QED BY <1>1, <1>3, <2>1, <2>2, <2>3, NoticeKeeps
<1>6. ASSUME NEW o \in 1..MaxOps, NEW v \in {0, o}, NEW p \in {"telling", "clearing"},
             p = "telling" => v = o, goroutine[o] = (IF p = "telling" THEN "tell" ELSE "cleared"),
             p = "clearing" => v = 0,
             Ow!Begin(o, v), goroutine' = [goroutine EXCEPT ![o] = p],
             UNCHANGED <<operation, ops, event, watcher, chan, shown>>
      PROVE  WatchInv'
  <2>1. PICK m \in Notices : m = [val |-> v, todo |-> Ow!Registered, drained |-> {}]
    BY <1>2, <1>3
  <2>2. note' = [note EXCEPT ![o] = m]
    BY <1>6, <2>1 DEF Ow!Begin
  <2>3. note[o].todo = {}
    BY <1>6 DEF WatchInv
  <2>4. m.val = v /\ m.todo = Ow!Registered /\ m.drained = {}
    BY <2>1
  <2>5. goroutine' \in [1..MaxOps -> OpPcs] /\ goroutine'[o] = p
        /\ \A i \in 1..MaxOps : i # o => goroutine'[i] = goroutine[i]
    BY <1>6 DEF WatchInv, WatchTypes, OpPcs
  <2>6. event' \in {"idle", "cleared", "telling"}
    BY <1>6 DEF WatchInv, WatchTypes
  <2> QED BY <1>3, <1>6, <2>2, <2>3, <2>4, <2>5, <2>6, NoticeKeeps
<1>7. ASSUME NEW o \in 1..MaxOps, NEW p \in {"work", "ended"}, note[o].todo = {},
             goroutine[o] = (IF p = "work" THEN "telling" ELSE "clearing"),
             note' = [note EXCEPT ![o] = Ow!NoNote], goroutine' = [goroutine EXCEPT ![o] = p],
             UNCHANGED <<operation, ops, event, watcher, chan, shown>>
      PROVE  WatchInv'
  <2>1. goroutine' \in [1..MaxOps -> OpPcs] /\ goroutine'[o] = p
        /\ \A i \in 1..MaxOps : i # o => goroutine'[i] = goroutine[i]
    BY <1>7 DEF WatchInv, WatchTypes, OpPcs
  <2>2. ToBegin => ToBegin'
    BY <1>7, <2>1 DEF ToBegin
  <2>3. event' \in {"idle", "cleared", "telling"}
    BY <1>7 DEF WatchInv, WatchTypes
  <2> QED BY <1>1, <1>3, <1>7, <2>1, <2>2, <2>3, NoticeKeeps
<1>8. ASSUME NEW o \in 1..MaxOps,
             Ow!TellPhase(o) \/ Ow!PhaseTold(o) \/ Ow!TellCleared(o) \/ Ow!ClearTold(o)
      PROVE  WatchInv'
  BY <1>6, <1>7, <1>8 DEF Ow!TellPhase, Ow!PhaseTold, Ow!TellCleared, Ow!ClearTold, Ow!Idle
<1> QED BY <1>4, <1>5, <1>8

\* A watcher is drained and then filled: the notice still reaches it, or another
\* that came between did and says the same.
LEMMA GiveKeeps ==
  ASSUME WatchInv, NEW n \in 0..MaxOps, NEW w \in Watchers, Ow!Drain(n, w) \/ Ow!Put(n, w)
  PROVE  WatchInv'
<1>0. note[n] \in Notices /\ w \in note[n].todo
      /\ UNCHANGED <<operation, ops, goroutine, event, watcher, shown>>
  BY DEF WatchInv, WatchTypes, Ow!Drain, Ow!Put
<1>1. PICK m \in Notices :
        /\ note' = [note EXCEPT ![n] = m] /\ m.val = note[n].val
        /\ \/ m.todo = note[n].todo /\ m.drained = note[n].drained \cup {w}
              /\ chan' = [chan EXCEPT ![w] = << >>]
           \/ m.todo = note[n].todo \ {w} /\ m.drained = note[n].drained
              /\ chan' = (IF chan[w] = << >> THEN [chan EXCEPT ![w] = <<note[n].val>>] ELSE chan)
              /\ w \in note[n].drained
  <2>1. CASE Ow!Drain(n, w)
    <3>1. PICK m \in Notices : m = [note[n] EXCEPT !.drained = note[n].drained \cup {w}]
      BY <1>0 DEF Notices
    <3>2. m.val = note[n].val /\ m.todo = note[n].todo /\ m.drained = note[n].drained \cup {w}
      BY <1>0, <3>1 DEF Notices
    <3> QED BY <2>1, <3>1, <3>2 DEF Ow!Drain
  <2>2. CASE Ow!Put(n, w)
    <3>1. PICK m \in Notices : m = [note[n] EXCEPT !.todo = note[n].todo \ {w}]
      BY <1>0 DEF Notices
    <3>2. m.val = note[n].val /\ m.todo = note[n].todo \ {w} /\ m.drained = note[n].drained
      BY <1>0, <3>1 DEF Notices
    <3> QED BY <2>2, <3>1, <3>2 DEF Ow!Put
  <2> QED BY <2>1, <2>2
<1>2. note'[n] = m /\ \A i \in 0..MaxOps : i # n => note'[i] = note[i]
  BY <1>1 DEF WatchInv, WatchTypes
<1>3. \A i \in 0..MaxOps : note'[i].todo \subseteq note[i].todo /\ note'[i].val = note[i].val
  BY <1>1, <1>2
<1>4. \A v \in Watchers : v # w => chan'[v] = chan[v]
  BY <1>1 DEF WatchInv, WatchTypes
<1>5. note[n].val \in 0..MaxOps
  <2>1. n = 0 \/ n \in 1..MaxOps
    BY StreamAssumption
  <2> QED BY <1>0, <2>1, StreamAssumption DEF WatchInv, Notices
<1>6. WatchTypes'
  <2>1. note' \in [0..MaxOps -> Notices]
    BY <1>1 DEF WatchInv, WatchTypes
  <2>2. chan' \in [Watchers -> {<< >>} \cup {<<v>> : v \in 0..MaxOps}]
    BY <1>1, <1>5 DEF WatchInv, WatchTypes
  <2> QED BY <1>0, <2>1, <2>2 DEF WatchInv, WatchTypes
<1>7. ASSUME NEW i \in 1..MaxOps
      PROVE  /\ i > ops => goroutine'[i] = "none"
             /\ goroutine'[i] \in {"phase", "tell", "telling", "work"} => operation' = i
             /\ note'[i].todo # {} =>
                   \/ goroutine'[i] = "telling" /\ note'[i].val = i
                   \/ goroutine'[i] = "clearing" /\ note'[i].val = 0
  <2>1. i \in 0..MaxOps
    BY StreamAssumption
  <2> QED BY <1>0, <1>3, <2>1 DEF WatchInv
<1>8. note'[0].todo # {} => event' = "telling" /\ note'[0].val = 0
  <2>1. 0 \in 0..MaxOps
    BY StreamAssumption
  <2> QED BY <1>0, <1>3, <2>1 DEF WatchInv
<1>9. ASSUME NEW v \in Watchers, operation = 0, watcher[v] \in {"watching", "looping"}
      PROVE  Settles(v)'
  <2>1. Settles(v) /\ (ToBegin => ToBegin')
    BY <1>0, <1>9 DEF WatchInv, ToBegin
  <2>2. CASE v # w
    <3>1. \A i \in 0..MaxOps :
            (v \in note'[i].todo <=> v \in note[i].todo)
            /\ (v \in note'[i].drained <=> v \in note[i].drained)
      BY <1>1, <1>2, <2>2
    <3>2. ToCome(v) => ToCome(v)'
      BY <1>4, <2>2, <3>1 DEF ToCome
    <3> QED BY <1>0, <1>4, <2>1, <2>2, <3>2 DEF Settles
  <2>3. CASE v = w /\ m.todo = note[n].todo /\ chan' = [chan EXCEPT ![w] = << >>]
    <3>1. chan'[w] = << >>
      BY <2>3 DEF WatchInv, WatchTypes
    <3>2. ToCome(w)'
      BY <1>0, <1>2, <2>3, <3>1 DEF ToCome
    <3> QED BY <2>3, <3>2 DEF Settles
  <2>4. CASE v = w /\ m.todo = note[n].todo \ {w} /\ m.drained = note[n].drained
             /\ chan' = (IF chan[w] = << >> THEN [chan EXCEPT ![w] = <<note[n].val>>] ELSE chan)
    <3>1. note[n].val = 0
      BY <1>0, <1>9, OnlyClearing
    <3>2. chan[w] = << >> => chan'[w] = <<0>>
      BY <2>4, <3>1 DEF WatchInv, WatchTypes
    <3>3. chan[w] # << >> => chan'[w] = chan[w]
      BY <2>4
    <3>4. CASE chan[w] \in {<< >>, <<0>>}
      BY <2>4, <3>2, <3>3, <3>4 DEF Settles
    <3>5. CASE chan[w] \notin {<< >>, <<0>>}
      <4>1. ToBegin \/ ToCome(w)
        BY <2>1, <2>4, <3>5 DEF Settles
      <4>2. ASSUME ToCome(w) PROVE ToCome(w)'
        <5>1. PICK i \in 0..MaxOps : w \in note[i].todo /\ w \notin note[i].drained
          BY <3>5, <4>2 DEF ToCome
        <5>2. i # n
          BY <1>1, <2>4, <5>1, <1>0
        <5> QED BY <1>2, <5>1, <5>2 DEF ToCome
      <4> QED BY <2>1, <2>4, <4>1, <4>2 DEF Settles
    <3> QED BY <3>4, <3>5
  <2> QED BY <1>1, <2>2, <2>3, <2>4
<1>10. \A v \in Watchers :
         /\ \A i \in 0..MaxOps : v \in note'[i].todo => watcher'[v] \in {"watching", "looping"}
         /\ watcher'[v] = "none" => chan'[v] = << >>
  <2>1. watcher[w] # "none"
    BY <1>0 DEF WatchInv
  <2> QED BY <1>0, <1>3, <1>4, <2>1 DEF WatchInv
<1> QED BY <1>0, <1>6, <1>7, <1>8, <1>9, <1>10 DEF WatchInv

\* A watcher comes, is sent what there is, what its channel holds, or leaves.
LEMMA WatcherKeeps ==
  ASSUME WatchInv, NEW w \in Watchers,
         Ow!Watch(w) \/ Ow!SendCurrent(w) \/ Ow!Send(w) \/ Ow!Unwatch(w)
  PROVE  WatchInv'
<1>0. UNCHANGED <<operation, ops, goroutine, event, note>>
  BY DEF Ow!Watch, Ow!SendCurrent, Ow!Send, Ow!Unwatch
<1>1. PICK c \in {<< >>} \cup {<<v>> : v \in 0..MaxOps}, s \in {-1} \cup (0..MaxOps),
           p \in {"watching", "looping", "gone"} :
        /\ chan' = [chan EXCEPT ![w] = c] /\ c \in {<< >>, chan[w]}
        /\ shown' = [shown EXCEPT ![w] = s]
        /\ watcher' = [watcher EXCEPT ![w] = p]
        /\ \/ /\ watcher[w] = "none" /\ p = "watching" /\ c = chan[w]
           \/ /\ watcher[w] = "watching" /\ p = "looping" /\ s = operation /\ c = chan[w]
           \/ /\ watcher[w] = "looping" /\ p = "looping" /\ c = << >>
              /\ chan[w] # << >> /\ s = chan[w][1]
           \/ /\ p = "gone" /\ Ow!NobodyNotifies
  <2>1. \A v \in 0..MaxOps : Head(<<v>>) = v /\ <<v>>[1] = v /\ <<v>> # << >>
    OBVIOUS
  <2>2. chan = [chan EXCEPT ![w] = chan[w]] /\ shown = [shown EXCEPT ![w] = shown[w]]
        /\ watcher = [watcher EXCEPT ![w] = watcher[w]]
        /\ chan[w] \in {<< >>} \cup {<<v>> : v \in 0..MaxOps}
        /\ shown[w] \in {-1} \cup (0..MaxOps) /\ operation \in 0..MaxOps
    BY DEF WatchInv, WatchTypes
  <2>3. CASE Ow!Watch(w)
    BY <2>2, <2>3 DEF Ow!Watch
  <2>4. CASE Ow!SendCurrent(w)
    BY <2>2, <2>4 DEF Ow!SendCurrent
  <2>5. CASE Ow!Send(w)
    <3>1. PICK v \in 0..MaxOps : chan[w] = <<v>>
      BY <2>2, <2>5 DEF Ow!Send
    <3>2. Head(chan[w]) = v /\ chan[w][1] = v /\ chan[w] # << >>
      BY <2>1, <3>1
    <3>3. /\ chan' = [chan EXCEPT ![w] = << >>] /\ shown' = [shown EXCEPT ![w] = v]
          /\ watcher[w] = "looping" /\ watcher' = watcher
      BY <2>5, <3>2 DEF Ow!Send
    <3>4. watcher' = [watcher EXCEPT ![w] = "looping"]
      BY <2>2, <3>3
    <3> QED BY <3>2, <3>3, <3>4
  <2>6. CASE Ow!Unwatch(w)
    BY <2>2, <2>6 DEF Ow!Unwatch
  <2> QED BY <2>3, <2>4, <2>5, <2>6
<1>2. /\ \A v \in Watchers : v # w => /\ chan'[v] = chan[v] /\ watcher'[v] = watcher[v]
                                      /\ shown'[v] = shown[v]
      /\ chan'[w] = c /\ watcher'[w] = p /\ shown'[w] = s
      /\ WatchTypes'
  BY <1>0, <1>1 DEF WatchInv, WatchTypes
<1>3. ASSUME NEW n \in 0..MaxOps, w \in note[n].todo PROVE watcher'[w] \in {"watching", "looping"}
  BY <1>1, <1>2, <1>3, NotifiersAre DEF Ow!NobodyNotifies, WatchInv
<1>4. ToBegin' <=> ToBegin
  BY <1>0 DEF ToBegin
<1>5. \A v \in Watchers : v # w /\ Settles(v) => Settles(v)'
  BY <1>0, <1>2, <1>4 DEF Settles, ToCome
<1>6. ASSUME operation = 0, watcher'[w] \in {"watching", "looping"} PROVE Settles(w)'
  <2>1. ToCome(w) => ToCome(w)'
    BY <1>0, <1>1, <1>2 DEF ToCome
  <2>2. CASE watcher[w] = "none"
    <3>1. c = << >> /\ p = "watching"
      BY <1>1, <1>2, <1>6, <2>2 DEF WatchInv
    <3> QED BY <1>2, <3>1 DEF Settles
  <2>3. CASE watcher[w] \in {"watching", "looping"}
    <3>1. Settles(w)
      BY <1>6, <2>3 DEF WatchInv
    <3>2. chan[w] = <<0>> => chan[w][1] = 0
      OBVIOUS
    <3> QED BY <1>1, <1>2, <1>4, <1>6, <2>1, <2>3, <3>1, <3>2 DEF Settles
  <2> QED BY <1>1, <1>2, <1>6, <2>2, <2>3
<1> QED BY <1>0, <1>1, <1>2, <1>3, <1>5, <1>6 DEF WatchInv

\* Every step of the operation streams.
LEMMA WatchStep == ASSUME WatchInv, [Ow!Next]_(Ow!vars) PROVE WatchInv'
<1>1. CASE UNCHANGED Ow!vars
  BY <1>1 DEF Ow!vars, WatchInv, WatchTypes, Settles, ToBegin, ToCome
<1>2. ASSUME NEW o \in 1..MaxOps, Ow!SetPhase(o) \/ Ow!Launched(o) \/ Ow!ClearOperation(o)
      PROVE  WatchInv'
  <2>1. PICK p \in {"work", "tell", "launched", "cleared"} :
          /\ goroutine' = [goroutine EXCEPT ![o] = p] /\ goroutine[o] \in {"phase", "work"}
          /\ p = "cleared" => operation' = 0
          /\ p # "cleared" => operation' = operation
          /\ UNCHANGED <<ops, event, note, watcher, chan, shown>>
    BY <1>2 DEF Ow!SetPhase, Ow!Launched, Ow!ClearOperation, Ow!Idle
  <2>2. operation = o /\ note[o].todo = {} /\ p \in OpPcs
    BY <2>1 DEF WatchInv, OpPcs
  <2> QED BY <2>1, <2>2, GoroutineKeeps
<1>3. CASE \E o \in Ow!Ops : \/ Ow!SetPhase(o) \/ Ow!TellPhase(o) \/ Ow!PhaseTold(o)
                             \/ Ow!Launched(o) \/ Ow!ClearOperation(o) \/ Ow!TellCleared(o)
                             \/ Ow!ClearTold(o)
  BY <1>2, <1>3, NotifiersAre, TellKeeps
<1>4. CASE \E n \in Ow!Notifiers, w \in Watchers : Ow!Drain(n, w) \/ Ow!Put(n, w)
  BY <1>4, NotifiersAre, GiveKeeps
<1>5. CASE \E w \in Watchers : Ow!Watch(w) \/ Ow!SendCurrent(w) \/ Ow!Send(w) \/ Ow!Unwatch(w)
  BY <1>5, WatcherKeeps
<1> QED BY <1>1, <1>3, <1>4, <1>5, SubmitKeeps, EventKeeps, TellKeeps DEF Ow!Next

\* When everything has ended nothing is to come.
LEMMA WatchPromises == ASSUME WatchInv PROVE Ow!SettlesToIdle
<1> SUFFICES ASSUME Ow!Quiet, operation = 0, NEW w \in Watchers, watcher[w] = "looping",
                    chan[w] = << >>
             PROVE  shown[w] = 0
  BY DEF Ow!SettlesToIdle, Ow!Idle
<1>1. ~ToBegin
  BY NotifiersAre DEF Ow!Quiet, ToBegin
<1>2. ~ToCome(w)
  <2>1. \A n \in 0..MaxOps : n = 0 \/ n \in 1..MaxOps
    BY StreamAssumption
  <2> QED BY <2>1, NotifiersAre DEF Ow!Quiet, ToCome, WatchInv
<1>3. Settles(w) /\ chan[w] # <<0>>
  BY DEF WatchInv
<1> QED BY <1>1, <1>2, <1>3 DEF Settles

\* At first there is no operation and nobody watches.
LEMMA WatchStarts == ASSUME Ow!Init PROVE WatchInv
<1>1. Ow!NoNote \in Notices /\ Ow!NoNote.todo = {}
  BY DEF Ow!NoNote, Notices
<1>2. WatchTypes
  BY <1>1, NotifiersAre, StreamAssumption DEF Ow!Init, WatchTypes, OpPcs, Ow!Idle
<1>3. \A n \in 0..MaxOps : note[n].todo = {}
  BY <1>1, NotifiersAre DEF Ow!Init
<1>4. 0 \in 0..MaxOps /\ \A o \in 1..MaxOps : o \in 0..MaxOps
  BY StreamAssumption
<1> QED BY <1>2, <1>3, <1>4, NotifiersAre DEF Ow!Init, WatchInv

-----------------------------------------------------------------------------
(* The Steam client, for any number of callers, requests and faults.         *)

Askings == [pc : {"free", "send", "wait", "done"}, ask : Nat, job : Nat, got : Nat]
Requested == [job : Nat, ask : Nat]

\* A job number is never drawn again: it is the number of the one request it was
\* drawn for, a caller waits under its own, and an answer names the request it is
\* for; what a caller got is the answer to what it asks.
SteamInv ==
  /\ nextJob \in Nat /\ asks = nextJob
  /\ caller \in [SteamCallers -> Askings]
  /\ server \subseteq Requested /\ \A rs \in wire : rs \subseteq Requested
  /\ \A q \in server \cup UNION wire : q.ask = q.job
  /\ \A c \in SteamCallers : caller[c].pc \in {"send", "wait"} => caller[c].job = caller[c].ask
  /\ \A j \in DOMAIN jobs :
        /\ jobs[j] \in SteamCallers
        /\ caller[jobs[j]].job = j /\ caller[jobs[j]].pc \in {"send", "wait"}
  /\ Sm!AnswerIsOwn

\* A caller whose request ends, or goes on with what it has.
LEMMA CallerMoves ==
  ASSUME SteamInv, NEW c \in SteamCallers, NEW a \in Askings,
         caller' = [caller EXCEPT ![c] = a],
         a.got # 0 => a.got = a.ask,
         a.pc \in {"send", "wait"} => a.job = a.ask,
         UNCHANGED <<nextJob, asks, wire>>,
         server' \subseteq Requested, \A q \in server' : q.ask = q.job,
         \/ a.job = caller[c].job /\ a.pc \in {"send", "wait"} /\ UNCHANGED jobs
         \/ caller[c].pc \notin {"send", "wait"} /\ UNCHANGED jobs
         \/ Sm!Unregister(c)
  PROVE  SteamInv'
<1>1. caller'[c] = a /\ \A d \in SteamCallers : d # c => caller'[d] = caller[d]
  BY DEF SteamInv
<1>2. caller' \in [SteamCallers -> Askings]
  BY DEF SteamInv
<1>3. Sm!AnswerIsOwn'
  BY <1>1 DEF SteamInv, Sm!AnswerIsOwn
<1>4. \A j \in DOMAIN jobs' :
        /\ jobs'[j] \in SteamCallers
        /\ caller'[jobs'[j]].job = j /\ caller'[jobs'[j]].pc \in {"send", "wait"}
  <2>1. \A j \in DOMAIN jobs' : j \in DOMAIN jobs /\ jobs'[j] = jobs[j]
    BY DEF Sm!Unregister
  <2>2. CASE Sm!Unregister(c)
    <3>1. \A j \in DOMAIN jobs' : j # caller[c].job
      BY <2>2 DEF Sm!Unregister
    <3> QED BY <1>1, <2>1, <3>1 DEF SteamInv
  <2>3. CASE ~Sm!Unregister(c)
    <3>1. UNCHANGED jobs
      BY <2>3
    <3>2. \/ a.job = caller[c].job /\ a.pc \in {"send", "wait"}
          \/ caller[c].pc \notin {"send", "wait"}
      BY <2>3
    <3> QED BY <1>1, <3>1, <3>2 DEF SteamInv
  <2> QED BY <2>2, <2>3
<1> QED BY <1>1, <1>2, <1>3, <1>4 DEF SteamInv

\* A request is sent under a number no request was sent under before.
LEMMA RegisterKeeps == ASSUME SteamInv, NEW c \in SteamCallers, Sm!Register(c) PROVE SteamInv'
<1>1. PICK j \in Nat : j = nextJob + 1
  BY DEF SteamInv
<1>2. PICK a \in Askings : a = [pc |-> "send", ask |-> asks + 1, job |-> j, got |-> 0]
  BY <1>1 DEF SteamInv, Askings
<1>3. /\ caller[c].pc = "free" /\ nextJob' = j /\ asks' = j
      /\ jobs' = [i \in DOMAIN jobs \cup {j} |-> IF i = j THEN c ELSE jobs[i]]
      /\ caller' = [caller EXCEPT ![c] = a]
      /\ UNCHANGED <<server, wire>>
  BY <1>1, <1>2 DEF Sm!Register, SteamInv
<1>4. a.pc = "send" /\ a.ask = j /\ a.job = j /\ a.got = 0
  BY <1>1, <1>2 DEF SteamInv
<1>5. caller'[c] = a /\ \A d \in SteamCallers : d # c => caller'[d] = caller[d]
  BY <1>3 DEF SteamInv
<1>6. caller' \in [SteamCallers -> Askings]
  BY <1>3 DEF SteamInv
<1>7. Sm!AnswerIsOwn'
  BY <1>4, <1>5 DEF SteamInv, Sm!AnswerIsOwn
<1>8. \A i \in DOMAIN jobs' :
        /\ jobs'[i] \in SteamCallers
        /\ caller'[jobs'[i]].job = i /\ caller'[jobs'[i]].pc \in {"send", "wait"}
  BY <1>3, <1>4, <1>5 DEF SteamInv
<1> QED BY <1>3, <1>4, <1>5, <1>6, <1>7, <1>8 DEF SteamInv

\* The read loop gives an answer to the caller that waits under its number.
LEMMA ReadKeeps == ASSUME SteamInv, NEW rs \in wire, Sm!ReadLoop(rs) PROVE SteamInv'
<1>1. /\ wire' = wire \ {rs} /\ UNCHANGED <<nextJob, jobs, server, asks>>
      /\ caller' = [c \in SteamCallers |->
           IF Sm!Dispatched(rs, c) = {} THEN caller[c]
           ELSE [caller[c] EXCEPT !.got = (CHOOSE r \in Sm!Dispatched(rs, c) : TRUE).ask]]
  BY DEF Sm!ReadLoop
<1>2. ASSUME NEW c \in SteamCallers
      PROVE  /\ caller'[c] \in Askings
             /\ caller'[c].pc = caller[c].pc /\ caller'[c].job = caller[c].job
             /\ caller'[c].ask = caller[c].ask
             /\ caller'[c].got # 0 => caller'[c].got = caller'[c].ask
  <2>0. caller[c] \in Askings /\ (caller[c].got # 0 => caller[c].got = caller[c].ask)
    BY DEF SteamInv, Sm!AnswerIsOwn
  <2>1. CASE Sm!Dispatched(rs, c) = {}
    BY <1>1, <2>0, <2>1
  <2>2. ASSUME NEW r \in Sm!Dispatched(rs, c), r = CHOOSE q \in Sm!Dispatched(rs, c) : TRUE
        PROVE  /\ caller'[c] \in Askings
               /\ caller'[c].pc = caller[c].pc /\ caller'[c].job = caller[c].job
               /\ caller'[c].ask = caller[c].ask
               /\ caller'[c].got # 0 => caller'[c].got = caller'[c].ask
    <3>1. r \in rs /\ r.job \in DOMAIN jobs /\ jobs[r.job] = c
      BY DEF Sm!Dispatched
    <3>2. r \in Requested /\ r.ask = r.job /\ r.ask \in Nat
      BY <3>1 DEF SteamInv, Requested
    <3>3. caller[c].job = r.job /\ caller[c].job = caller[c].ask
      BY <3>1 DEF SteamInv
    <3>4. caller'[c] = [caller[c] EXCEPT !.got = r.ask]
      BY <1>1, <2>2
    <3> QED BY <2>0, <3>2, <3>3, <3>4 DEF Askings
  <2> QED BY <2>1, <2>2
<1>3. caller' \in [SteamCallers -> Askings]
  BY <1>1, <1>2
<1>4. Sm!AnswerIsOwn'
  BY <1>2 DEF Sm!AnswerIsOwn
<1>5. wire' \subseteq wire
  BY <1>1
<1> QED BY <1>1, <1>2, <1>3, <1>4, <1>5 DEF SteamInv

\* Every step of the client leaves every caller with its own answer.
LEMMA SteamStep == ASSUME SteamInv, [Sm!Next]_(Sm!vars) PROVE SteamInv'
<1> USE DEF SteamInv
<1>1. CASE Sm!Connect \/ Sm!HeartbeatFails \/ Sm!BeginAuth \/ UNCHANGED Sm!vars
  BY <1>1 DEF Sm!Connect, Sm!HeartbeatFails, Sm!BeginAuth, Sm!vars, Sm!AnswerIsOwn
<1>2. CASE Sm!Close \/ Sm!Lose
  BY <1>2 DEF Sm!Close, Sm!Lose, Sm!AnswerIsOwn
<1>3. CASE Sm!Login
  <2>1. [job |-> Sm!NoJob, ask |-> Sm!LogonAsk] \in Requested
    BY DEF Requested, Sm!NoJob, Sm!LogonAsk
  <2> QED BY <1>3, <2>1 DEF Sm!Login, Sm!AnswerIsOwn, Sm!NoJob, Sm!LogonAsk
<1>4. ASSUME NEW rs \in SUBSET server, Sm!Answer(rs) PROVE SteamInv'
  <2>1. server' \subseteq server /\ wire' = wire \cup {rs} /\ UNCHANGED <<nextJob, jobs, caller, asks>>
    BY <1>4 DEF Sm!Answer
  <2> QED BY <2>1 DEF Sm!AnswerIsOwn
<1>5. ASSUME NEW rs \in wire, Sm!DecodeFails(rs) PROVE SteamInv'
  <2>1. wire' \subseteq wire /\ UNCHANGED <<nextJob, jobs, caller, server, asks>>
    BY <1>5 DEF Sm!DecodeFails
  <2> QED BY <2>1 DEF Sm!AnswerIsOwn
<1> HIDE DEF SteamInv
<1>6. ASSUME NEW c \in SteamCallers,
             Sm!Send(c) \/ Sm!Receive(c) \/ Sm!GiveUp(c) \/ Sm!Again(c) \/ Sm!Stage(c)
      PROVE  SteamInv'
  <2>0. caller[c] \in Askings /\ (caller[c].got # 0 => caller[c].got = caller[c].ask)
    BY DEF SteamInv, Sm!AnswerIsOwn
  <2>1. Sm!Free \in Askings /\ Sm!Free.got = 0 /\ Sm!Free.pc = "free"
    BY DEF Sm!Free, Askings
  <2>2. UNCHANGED <<nextJob, asks, wire>>
    BY <1>6 DEF Sm!Send, Sm!Receive, Sm!GiveUp, Sm!Again, Sm!Stage
  <2>3. server \subseteq Requested /\ \A q \in server : q.ask = q.job
    BY DEF SteamInv
  <2>4. CASE Sm!GiveUp(c) \/ Sm!Again(c) \/ Sm!Stage(c)
    <3>1. caller' = [caller EXCEPT ![c] = Sm!Free] /\ UNCHANGED server
          /\ (Sm!Unregister(c) \/ (caller[c].pc = "done" /\ UNCHANGED jobs))
      BY <2>4 DEF Sm!GiveUp, Sm!Again, Sm!Stage
    <3> QED BY <2>1, <2>2, <2>3, <3>1, CallerMoves
  <2>5. CASE Sm!Receive(c)
    <3>1. PICK a \in Askings : a = [caller[c] EXCEPT !.pc = "done"]
      BY <2>0 DEF Askings
    <3>2. a.pc = "done" /\ a.got = caller[c].got /\ a.ask = caller[c].ask
      BY <2>0, <3>1 DEF Askings
    <3>3. caller' = [caller EXCEPT ![c] = a] /\ UNCHANGED server /\ Sm!Unregister(c)
      BY <2>5, <3>1 DEF Sm!Receive
    <3> QED BY <2>0, <2>2, <2>3, <3>2, <3>3, CallerMoves
  <2>6. CASE Sm!Send(c)
    <3>0. caller[c].pc = "send" /\ caller[c].job = caller[c].ask
      BY <2>6 DEF Sm!Send, SteamInv
    <3>1. PICK a \in Askings : a = [caller[c] EXCEPT !.pc = "wait"]
      BY <2>0 DEF Askings
    <3>2. a.pc = "wait" /\ a.got = caller[c].got /\ a.ask = caller[c].ask /\ a.job = caller[c].job
      BY <2>0, <3>1 DEF Askings
    <3>3. [job |-> caller[c].job, ask |-> caller[c].ask] \in Requested
      BY <2>0 DEF Askings, Requested
    <3>4. CASE conn = "open"
      <4>1. /\ server' = server \cup {[job |-> caller[c].job, ask |-> caller[c].ask]}
            /\ caller' = [caller EXCEPT ![c] = a] /\ UNCHANGED jobs
        BY <2>6, <3>1, <3>4 DEF Sm!Send
      <4>2. server' \subseteq Requested /\ \A q \in server' : q.ask = q.job
        BY <2>3, <3>0, <3>3, <4>1
      <4> QED BY <2>0, <2>2, <3>0, <3>2, <4>1, <4>2, CallerMoves
    <3>5. CASE conn # "open"
      <4>1. caller' = [caller EXCEPT ![c] = Sm!Free] /\ Sm!Unregister(c) /\ UNCHANGED server
        BY <2>6, <3>5 DEF Sm!Send
      <4> QED BY <2>1, <2>2, <2>3, <4>1, CallerMoves
    <3> QED BY <3>4, <3>5
  <2> QED BY <1>6, <2>4, <2>5, <2>6
<1> QED BY <1>1, <1>2, <1>3, <1>4, <1>5, <1>6, RegisterKeeps, ReadKeeps DEF Sm!Next

\* Nobody has asked anything at first.
LEMMA SteamStarts == ASSUME Sm!Init PROVE SteamInv
<1>1. Sm!Free \in Askings /\ Sm!Free.got = 0 /\ Sm!Free.pc = "free"
  BY DEF Sm!Free, Askings
<1>2. DOMAIN jobs = {}
  BY DEF Sm!Init
<1> QED BY <1>1, <1>2 DEF Sm!Init, SteamInv, Sm!AnswerIsOwn

-----------------------------------------------------------------------------
(* Whoever waits is answered.                                                *)

AnsweredPart ==
  /\ part = "watch" => WatchInv
  /\ part = "steam" => SteamInv

\* A client that follows a gameserver's operations is, when everything has ended,
\* shown that none is going on, while no event overtakes the goroutine it is about;
\* and a request to Steam returns with the answer to that request: for any number
\* of watchers and operations, of callers, requests and lost connections.
THEOREM EveryoneIsAnswered == Spec => []ClientsSettle
<1>1. Init => AnsweredPart
  <2> SUFFICES ASSUME Init PROVE AnsweredPart
    OBVIOUS
  <2>1. /\ part = "watch" => Ow!Init
        /\ part = "steam" => Sm!Init
    BY DEF Init
  <2> QED BY <2>1, WatchStarts, SteamStarts DEF AnsweredPart
<1>2. AnsweredPart /\ [Next]_vars => AnsweredPart'
  <2> SUFFICES ASSUME AnsweredPart, [Next]_vars PROVE AnsweredPart'
    OBVIOUS
  <2>1. part' = part
    BY StepsOfParts
  <2>2. ASSUME part = "watch" PROVE WatchInv'
    BY <2>2, StepsOfParts, WatchStep DEF AnsweredPart
  <2>3. ASSUME part = "steam" PROVE SteamInv'
    BY <2>3, StepsOfParts, SteamStep DEF AnsweredPart
  <2> QED BY <2>1, <2>2, <2>3 DEF AnsweredPart
<1>3. AnsweredPart => ClientsSettle
  BY WatchPromises DEF AnsweredPart, ClientsSettle, SteamInv
<1> QED BY <1>1, <1>2, <1>3, PTL DEF Spec

-----------------------------------------------------------------------------
(* The registry of workers, for any number of heartbeats at the same time.   *)

HandlerCall ==
  [pc : {"idle", "upsert", "dial", "register", "persist", "watch", "assign"},
   c : 0 .. MaxConns, answers : BOOLEAN]

\* An open connection is the registered one, or its handler is about to register it.
OpenIsHeld ==
  \A c \in conns : c = registered \/ \E h \in Handlers : beats[h].pc = "register" /\ beats[h].c = c

ConnInv ==
  /\ beats \in [Handlers -> HandlerCall]
  /\ made \in Nat
  /\ OpenIsHeld

\* A handler that moves on, and holds no connection before or after.
LEMMA HandlerMoves ==
  ASSUME ConnInv, NEW h \in Handlers, NEW k \in HandlerCall, beats' = [beats EXCEPT ![h] = k],
         beats[h].pc # "register", UNCHANGED <<made, registered, conns>>
  PROVE  ConnInv'
<1>1. beats' \in [Handlers -> HandlerCall] /\ \A g \in Handlers \ {h} : beats'[g] = beats[g]
  BY DEF ConnInv
<1>2. OpenIsHeld'
  BY <1>1 DEF ConnInv, OpenIsHeld
<1> QED BY <1>1, <1>2 DEF ConnInv

\* Every step keeps it: a connection is opened by the handler that will register
\* it, and whoever replaces or takes away the registered one closes it.
LEMMA ConnStep ==
  ASSUME ConnInv, [Rg!Next]_(Rg!vars) PROVE ConnInv'
<1>0. ASSUME NEW h \in Handlers, NEW pc \in {"idle", "upsert", "dial", "register", "persist", "watch", "assign"}
      PROVE  /\ beats[h] \in HandlerCall /\ [beats[h] EXCEPT !.pc = pc] \in HandlerCall
             /\ Rg!NoCall \in HandlerCall
  BY LinkAssumption DEF ConnInv, HandlerCall, Rg!NoCall
<1>1. CASE UNCHANGED <<beats, made, registered, conns>>
  BY <1>1 DEF ConnInv, OpenIsHeld
<1>2. ASSUME NEW h \in Handlers, Rg!Heartbeat(h) PROVE ConnInv'
  <2>1. CASE UNCHANGED beats
    BY <1>1, <1>2, <2>1 DEF Rg!Heartbeat, Rg!mgr
  <2>2. CASE beats' # beats
    <3>0. \A pc \in {"upsert", "dial"} : [pc |-> pc, c |-> 0, answers |-> TRUE] \in HandlerCall
      BY LinkAssumption DEF HandlerCall
    <3>1. PICK k \in HandlerCall : beats' = [beats EXCEPT ![h] = k]
      BY <1>2, <2>2, <3>0 DEF Rg!Heartbeat
    <3> QED BY <1>2, <3>1, HandlerMoves DEF Rg!Heartbeat, Rg!At
  <2> QED BY <2>1, <2>2
<1>3. ASSUME NEW h \in Handlers, Rg!DialBack(h) PROVE ConnInv'
  <2>1. CASE link
    <3>1. /\ made' = made + 1 /\ made' \in Nat /\ conns' = conns \cup {made'} /\ registered' = registered
          /\ made' \in 0 .. MaxConns
          /\ beats' = [beats EXCEPT ![h].pc = "register", ![h].c = made']
      BY <1>3, <2>1, LinkAssumption DEF Rg!DialBack, ConnInv
    <3>2. beats[h] \in HandlerCall /\ beats[h].pc = "dial"
      BY <1>3 DEF Rg!DialBack, Rg!At, ConnInv
    <3>3. /\ beats'[h] = [beats[h] EXCEPT !.pc = "register", !.c = made']
          /\ \A g \in Handlers \ {h} : beats'[g] = beats[g]
          /\ DOMAIN beats' = Handlers
      BY <3>1 DEF ConnInv
    <3>4. beats'[h] \in HandlerCall /\ beats'[h].pc = "register" /\ beats'[h].c = made'
      BY <3>1, <3>2, <3>3 DEF HandlerCall
    <3>5. beats' \in [Handlers -> HandlerCall]
      <4>1. beats' = [beats EXCEPT ![h] = beats'[h]]
        BY <3>1, <3>3 DEF ConnInv
      <4> QED BY <3>4, <4>1 DEF ConnInv
    <3>6. OpenIsHeld'
      <4> SUFFICES ASSUME NEW c \in conns', c # registered'
                   PROVE  \E g \in Handlers : beats'[g].pc = "register" /\ beats'[g].c = c
        BY DEF OpenIsHeld
      <4>1. CASE c = made'
        BY <3>4, <4>1
      <4>2. CASE c # made'
        <5>1. PICK g \in Handlers : beats[g].pc = "register" /\ beats[g].c = c
          BY <3>1, <4>2 DEF ConnInv, OpenIsHeld
        <5>2. g # h
          BY <3>2, <5>1
        <5> QED BY <3>3, <5>1, <5>2
      <4> QED BY <4>1, <4>2
    <3> QED BY <3>1, <3>5, <3>6 DEF ConnInv
  <2>2. CASE ~link
    <3>1. beats' = [beats EXCEPT ![h] = Rg!NoCall] /\ beats[h].pc # "register" /\ UNCHANGED <<made, registered, conns>>
      BY <1>3, <2>2 DEF Rg!DialBack, Rg!Answer, Rg!At
    <3> QED BY <1>0, <3>1, HandlerMoves
  <2> QED BY <2>1, <2>2
<1>4. ASSUME NEW h \in Handlers, Rg!RegisterConn(h) PROVE ConnInv'
  <2>1. /\ beats' = [beats EXCEPT ![h].pc = "persist"] /\ conns' = conns \ {registered} /\ registered' = beats[h].c
        /\ UNCHANGED made
    BY <1>4 DEF Rg!RegisterConn, Rg!Go
  <2>2. beats' = [beats EXCEPT ![h] = [beats[h] EXCEPT !.pc = "persist"]]
    BY <2>1
  <2>3. beats' \in [Handlers -> HandlerCall] /\ \A g \in Handlers \ {h} : beats'[g] = beats[g]
    BY <1>0, <2>2 DEF ConnInv
  <2>4. OpenIsHeld'
    <3> SUFFICES ASSUME NEW c \in conns', c # registered'
                 PROVE  \E g \in Handlers : beats'[g].pc = "register" /\ beats'[g].c = c
      BY DEF OpenIsHeld
    <3>1. PICK g \in Handlers : beats[g].pc = "register" /\ beats[g].c = c
      BY <2>1 DEF ConnInv, OpenIsHeld
    <3>2. g # h
      BY <2>1, <3>1
    <3> QED BY <2>3, <3>1, <3>2
  <2> QED BY <2>1, <2>3, <2>4 DEF ConnInv
<1>5. ASSUME NEW h \in Handlers,
             Rg!PersistOnline(h) \/ Rg!WatchOnline(h) \/ Rg!AssignOnline(h) \/ Rg!Upsert(h)
      PROVE  ConnInv'
  <2>1. /\ beats[h].pc # "register" /\ UNCHANGED <<made, registered, conns>>
        /\ \/ beats' = [beats EXCEPT ![h] = Rg!NoCall]
           \/ \E pc \in {"watch", "assign", "upsert"} : beats' = [beats EXCEPT ![h] = [beats[h] EXCEPT !.pc = pc]]
    BY <1>5 DEF Rg!PersistOnline, Rg!WatchOnline, Rg!AssignOnline, Rg!Upsert, Rg!At, Rg!Go, Rg!Answer, Rg!reg
  <2>2. PICK k \in HandlerCall : beats' = [beats EXCEPT ![h] = k]
    BY <1>0, <2>1
  <2> QED BY <2>1, <2>2, HandlerMoves
<1>6. ASSUME NEW t \in Rg!Offliners, Rg!SetOffline(t) PROVE ConnInv'
  BY <1>6 DEF Rg!SetOffline, ConnInv, OpenIsHeld
<1>7. CASE Rg!LinkDown
  <2>1. beats' = [h \in Handlers |-> [beats[h] EXCEPT !.answers = FALSE]] /\ UNCHANGED <<made, registered, conns>>
    BY <1>7 DEF Rg!LinkDown, Rg!reg
  <2>2. ASSUME NEW h \in Handlers
        PROVE  beats'[h] \in HandlerCall /\ beats'[h].pc = beats[h].pc /\ beats'[h].c = beats[h].c
    <3>1. beats[h] \in HandlerCall /\ beats'[h] = [beats[h] EXCEPT !.answers = FALSE]
      BY <2>1 DEF ConnInv
    <3> QED BY <3>1 DEF HandlerCall
  <2>3. beats' \in [Handlers -> HandlerCall]
    BY <2>1, <2>2
  <2>4. OpenIsHeld'
    BY <2>1, <2>2 DEF ConnInv, OpenIsHeld
  <2> QED BY <2>1, <2>3, <2>4 DEF ConnInv
<1>8. CASE \/ Rg!Register \/ Rg!Reap \/ Rg!LinkUp \/ Rg!Expire
           \/ \E t \in Rg!Offliners : Rg!PersistOffline(t) \/ Rg!CancelOffline(t) \/ Rg!ClearOffline(t)
           \/ \E c \in Rg!Conns : Rg!WatchStep(c)
           \/ UNCHANGED Rg!vars
  <2>1. UNCHANGED <<beats, made, registered, conns>>
    BY <1>8 DEF Rg!Register, Rg!Reap, Rg!LinkUp, Rg!Expire, Rg!PersistOffline, Rg!CancelOffline,
                Rg!ClearOffline, Rg!WatchStep, Rg!WatchEnds, Rg!StreamBreaks, Rg!handleStreamBreak,
                Rg!vars, Rg!reg
  <2> QED BY <1>1, <2>1
<1> QED BY <1>2, <1>3, <1>4, <1>5, <1>6, <1>7, <1>8 DEF Rg!Next, Rg!HandlerStep, Rg!OffStep

\* Before anything happens no connection is open.
LEMMA ConnStarts == ASSUME Rg!Init PROVE ConnInv
BY LinkAssumption DEF Rg!Init, Rg!NoCall, ConnInv, OpenIsHeld, HandlerCall

\* With nothing under way, every open connection is the registered one, and so is
\* every one whose events are routed.
LEMMA ConnPromises == ASSUME ConnInv PROVE Rg!NoLeakedConn /\ Rg!WatchedIsRegistered
<1>1. Rg!NoLeakedConn
  BY DEF Rg!NoLeakedConn, Rg!At, ConnInv, OpenIsHeld
<1>2. Rg!WatchedIsRegistered
  BY DEF Rg!WatchedIsRegistered, Rg!Quiet, Rg!Usable, Rg!At, ConnInv, OpenIsHeld
<1> QED BY <1>1, <1>2

-----------------------------------------------------------------------------
(* The UDP forwarder, for any number of clients and sessions.                *)

SessionInv ==
  /\ created \in Nat
  /\ sessions \in [UdpClients -> 0 .. created]
  /\ inHand.pc = "packet" => inHand.client \in UdpClients
  /\ Ud!SessionOwnsSocket

\* A session is created with the next number and a socket of its own, and is
\* forgotten with its socket.
LEMMA SessionStep == ASSUME SessionInv, [Ud!Next]_(Ud!vars) PROVE SessionInv'
<1> USE DEF SessionInv, Ud!SessionOwnsSocket
<1>1. CASE UNCHANGED <<created, sessions, inHand, sockets>>
  BY <1>1
<1>2. ASSUME NEW c \in UdpClients, Ud!ReadPacket(c) PROVE SessionInv'
  BY <1>2 DEF Ud!ReadPacket, Ud!Reading
<1>3. CASE Ud!Forward
  <2> DEFINE c == inHand.client
  <2>1. c \in UdpClients /\ inHand.pc = "packet" /\ inHand' = Ud!Reading
    BY <1>3 DEF Ud!Forward
  <2>2. CASE UNCHANGED <<created, sessions, sockets>>
    BY <2>1, <2>2 DEF Ud!Reading
  <2>3. CASE ~UNCHANGED <<created, sessions, sockets>>
    <3>1. /\ sessions[c] = 0 /\ created' = created + 1
          /\ sessions' = [sessions EXCEPT ![c] = created + 1]
          /\ sockets' = sockets \cup {created + 1}
      BY <1>3, <2>3 DEF Ud!Forward
    <3>2. /\ created' \in Nat /\ sessions' \in [UdpClients -> 0 .. created']
          /\ sessions'[c] = created + 1
          /\ \A d \in UdpClients \ {c} : sessions'[d] = sessions[d] /\ sessions[d] # created + 1
      BY <2>1, <3>1
    <3>3. {sessions'[d] : d \in UdpClients} \ {0}
            = ({sessions[d] : d \in UdpClients} \ {0}) \cup {created + 1}
      BY <2>1, <3>1, <3>2
    <3>4. sockets = {sessions[d] : d \in UdpClients} \ {0}
      BY <2>1
    <3>5. \A d, e \in UdpClients : sessions'[d] = sessions'[e] /\ sessions'[d] # 0 => d = e
      BY <3>2
    <3>6. inHand'.pc # "packet"
      BY <2>1 DEF Ud!Reading
    <3> QED BY <3>1, <3>2, <3>3, <3>4, <3>5, <3>6
  <2> QED BY <2>2, <2>3
<1>4. CASE Ud!Cleanup
  <2>1. PICK old \in SUBSET sockets :
          /\ sessions' = [c \in UdpClients |-> IF sessions[c] \in old THEN 0 ELSE sessions[c]]
          /\ sockets' = sockets \ old
    BY <1>4 DEF Ud!Cleanup
  <2>2. UNCHANGED <<created, inHand>>
    BY <1>4 DEF Ud!Cleanup
  <2>3. sessions' \in [UdpClients -> 0 .. created]
    BY <2>1
  <2>4. inHand.pc # "ended" => sockets' = {sessions'[c] : c \in UdpClients} \ {0}
    BY <2>1
  <2>5. \A c, d \in UdpClients : sessions'[c] = sessions'[d] /\ sessions'[c] # 0 => c = d
    BY <2>1
  <2> QED BY <2>2, <2>3, <2>4, <2>5
<1>5. CASE Ud!End
  BY <1>5 DEF Ud!End, Ud!Reading
<1>6. CASE \/ \E b \in Backends : Ud!setBackend(b)
           \/ \E i \in Ud!Ids : Ud!Answer(i) \/ Ud!ReturnEnds(i)
           \/ Ud!stop \/ UNCHANGED Ud!vars
  <2>1. UNCHANGED <<created, sessions, inHand, sockets>>
    BY <1>6 DEF Ud!setBackend, Ud!Answer, Ud!ReturnEnds, Ud!stop, Ud!vars
  <2> QED BY <1>1, <2>1
<1> QED BY <1>2, <1>3, <1>4, <1>5, <1>6 DEF Ud!Next

\* Before anything happens there is no session.
LEMMA SessionStarts == ASSUME Ud!Init PROVE SessionInv
BY DEF Ud!Init, Ud!Reading, SessionInv, Ud!SessionOwnsSocket

-----------------------------------------------------------------------------
(* Nothing that was opened is lost track of.                                 *)

OwnedPart ==
  /\ part = "registry" => ConnInv
  /\ part = "udp" => SessionInv

\* However heartbeats, the reaper, failing links and the callbacks interleave, an
\* open connection is registered or about to be, and when nothing is under way
\* events are only routed from the registered one; whatever clients, the cleanup
\* and changes of the route do, the open UDP sockets are those of the sessions,
\* and no two clients share one.
THEOREM NothingLeaks == Spec => []SocketsAreOwned
<1>1. Init => OwnedPart
  BY ConnStarts, SessionStarts DEF Init, OwnedPart
<1>2. OwnedPart /\ [Next]_vars => OwnedPart'
  <2> SUFFICES ASSUME OwnedPart, [Next]_vars PROVE OwnedPart'
    OBVIOUS
  <2>1. part' = part
    BY StepsOfParts
  <2>2. ASSUME part = "registry" PROVE ConnInv'
    BY <2>2, StepsOfParts, ConnStep DEF OwnedPart
  <2>3. ASSUME part = "udp" PROVE SessionInv'
    BY <2>3, StepsOfParts, SessionStep DEF OwnedPart
  <2> QED BY <2>1, <2>2, <2>3 DEF OwnedPart
<1>3. OwnedPart => SocketsAreOwned
  BY ConnPromises DEF OwnedPart, SocketsAreOwned, SessionInv
<1> QED BY <1>1, <1>2, <1>3, PTL DEF Spec

-----------------------------------------------------------------------------
(* Calls to a worker, for streams of any length.                             *)

(* Why OkMeansDone holds.  A caller that waits for an answer has a whole      *)
(* account of its stream: what the reader stored, what the pump holds and     *)
(* what is under way add up to what was taken from the source.                *)

Message == {"data", "eof", "err"}
InPipe  == IF pump = "write" THEN 1 ELSE 0

\* While the caller sends, only chunks are under way; the end follows the last
\* of them, and once it has been read nothing is under way any more.
UpSending == side = "send" /\ upward \in Seq(Message) /\ (\A i \in 1 .. Len(upward) : upward[i] = "data")
             /\ kept + InPipe + Len(upward) = taken /\ sink # "ok" /\ pump # "end"
UpClosed  == side = "wait" /\ upward \in Seq(Message) /\ taken = call.size /\ Len(upward) > 0 /\ upward[Len(upward)] = "eof"
             /\ (\A i \in 1 .. Len(upward) - 1 : upward[i] = "data")
             /\ kept + InPipe + Len(upward) - 1 = taken /\ sink # "ok" /\ pump # "end"
UpEnded   == side = "wait" /\ upward = <<>> /\ kept = call.size /\ pump \notin {"recv", "write"}

\* Chunks come before the end of a stream down, and its end after the last one.
DownOpen ==
  \E k \in 0 .. Len(downward) :
    /\ \A i \in 1 .. k : downward[i] = "data"
    /\ \A i \in k + 1 .. Len(downward) : downward[i] # "data"
    /\ kept + k = taken
    /\ sink = "run" => k = Len(downward)
    /\ (\E i \in 1 .. Len(downward) : downward[i] = "eof") => taken = call.size

LinkInv ==
  /\ downward \in Seq(Message)
  /\ taken \in Nat /\ kept \in Nat /\ ran \in Nat /\ call.size \in Nat
  /\ outcome = "none" \/ side = "idle"
  /\ side \in {"send", "wait"} /\ call.kind \in Lk!Up => UpSending \/ UpClosed \/ UpEnded
  /\ side = "recv" => call.kind \in Lk!Down /\ DownOpen
  /\ call.kind \in Lk!Unary /\ sink \in {"ok", "err"} => ran = 1
  /\ call.kind \in Lk!Unary /\ sink = "run" => ran = 0
  /\ side = "send" => call.kind \in Lk!Up
  /\ pump # "none" => call.kind \in Lk!Up /\ call.remote
  /\ outcome = "ok" => pump \notin {"recv", "write"}
  /\ outcome = "ok" /\ call.kind \notin Lk!Down => sink = "ok"
  /\ Lk!OkMeansDone

\* No call is of two shapes.
LEMMA ShapesDiffer ==
  /\ Lk!Unary \cap Lk!Up = {} /\ Lk!Unary \cap Lk!Down = {} /\ Lk!Up \cap Lk!Down = {}
  /\ "none" \notin Lk!Unary /\ "none" \notin Lk!Up /\ "none" \notin Lk!Down
BY DEF Lk!Unary, Lk!InstanceCalls, Lk!VolumeCalls, Lk!FileCalls, Lk!PathCalls, Lk!StateCalls, Lk!DepotCalls, Lk!Up, Lk!Down

\* What sending a message does to a stream.
LEMMA AppendMessage ==
  ASSUME NEW s \in Seq(Message), NEW m \in Message
  PROVE  /\ Append(s, m) \in Seq(Message) /\ Len(Append(s, m)) = Len(s) + 1 /\ Len(s) \in Nat
         /\ \A i \in 1 .. Len(s) : Append(s, m)[i] = s[i]
         /\ Append(s, m)[Len(s) + 1] = m
BY AppendProperties, LenProperties

\* ... and receiving the first one.
LEMMA TakeMessage ==
  ASSUME NEW s \in Seq(Message), s # <<>>
  PROVE  /\ Tail(s) \in Seq(Message) /\ Len(Tail(s)) = Len(s) - 1 /\ Len(s) \in Nat /\ Len(s) > 0
         /\ \A i \in 1 .. Len(s) - 1 : Tail(s)[i] = s[i + 1]
         /\ Head(s) = s[1]
OBVIOUS

\* A new call starts its account with nothing.
LEMMA InvokeKeeps ==
  ASSUME LinkInv, NEW k, NEW remote \in BOOLEAN, NEW size \in Nat, Lk!Invoke(k, remote, size)
  PROVE  LinkInv'
<1>1. /\ call'.kind = k /\ call'.size = size /\ taken' = 0 /\ upward' = <<>> /\ downward' = <<>>
      /\ kept' = 0 /\ ran' = 0 /\ sink' = "run" /\ outcome' = "none" /\ (pump' # "none" => k \in Lk!Up /\ call'.remote) /\ pump' # "end" /\ pump' # "write"
      /\ side' = IF k \in Lk!Up THEN "send" ELSE IF k \in Lk!Down THEN "recv" ELSE "wait"
  BY DEF Lk!Invoke
<1>2. k \in Lk!Up => UpSending'
  BY <1>1 DEF UpSending, InPipe
<1>3. DownOpen'
  BY <1>1 DEF DownOpen
<1>4. downward' \in Seq(Message) /\ taken' \in Nat /\ kept' \in Nat /\ ran' \in Nat /\ call'.size \in Nat
  BY <1>1
<1> QED BY <1>1, <1>2, <1>3, <1>4, ShapesDiffer DEF LinkInv, Lk!OkMeansDone

\* Plain calls are executed once.
LEMMA PlainKeeps == ASSUME LinkInv, Lk!Execute \/ Lk!UnaryReturns PROVE LinkInv'
<1>1. call.kind \in Lk!Unary /\ call.kind \notin Lk!Up /\ call.kind \notin Lk!Down
  BY ShapesDiffer DEF Lk!Execute, Lk!UnaryReturns
<1>2. UNCHANGED <<call, taken, downward, kept>> /\ side' \in {side, "idle"}
  BY DEF Lk!Execute, Lk!UnaryReturns, Lk!Return
<1>3. CASE Lk!Execute
  BY <1>1, <1>2, <1>3 DEF Lk!Execute, LinkInv, Lk!OkMeansDone
<1>4. CASE Lk!UnaryReturns
  BY <1>1, <1>2, <1>4 DEF Lk!UnaryReturns, Lk!Return, LinkInv, Lk!OkMeansDone
<1> QED BY <1>3, <1>4

\* What the controller does for a stream up.
LEMMA SendKeeps == ASSUME LinkInv, Lk!SendChunk \/ Lk!CloseSend \/ Lk!SourceFails PROVE LinkInv'
<1>1. call.kind \in Lk!Up /\ side = "send" /\ call.kind \notin Lk!Down /\ call.kind \notin Lk!Unary
      /\ UpSending /\ outcome = "none"
  BY ShapesDiffer DEF Lk!SendChunk, Lk!CloseSend, Lk!SourceFails, Lk!Sending, LinkInv, UpClosed, UpEnded
<1>2. CASE Lk!SendChunk
  <2>1. /\ upward' = Append(upward, "data") /\ taken' = taken + 1
        /\ UNCHANGED <<call, side, downward, pump, sink, kept, ran, outcome>>
    BY <1>2 DEF Lk!SendChunk
  <2>2. UpSending'
    <3>1. upward \in Seq(Message) /\ kept \in Nat /\ taken \in Nat
      BY <1>1 DEF UpSending, LinkInv
    <3>2. /\ upward' \in Seq(Message) /\ Len(upward') = Len(upward) + 1 /\ Len(upward) \in Nat
          /\ \A i \in 1 .. Len(upward') : upward'[i] = "data"
      <4>1. /\ upward' \in Seq(Message) /\ Len(upward') = Len(upward) + 1 /\ Len(upward) \in Nat
            /\ upward'[Len(upward) + 1] = "data" /\ \A i \in 1 .. Len(upward) : upward'[i] = upward[i]
        BY <2>1, <3>1, AppendMessage DEF Message
      <4> QED BY <1>1, <4>1 DEF UpSending
    <3> QED BY <1>1, <2>1, <3>1, <3>2 DEF UpSending, InPipe
  <2> QED BY <1>1, <2>1, <2>2 DEF LinkInv, Lk!OkMeansDone
<1>3. CASE Lk!CloseSend
  <2>1. /\ upward' = Append(upward, "eof") /\ side' = "wait" /\ taken = call.size
        /\ UNCHANGED <<call, taken, downward, pump, sink, kept, ran, outcome>>
    BY <1>3 DEF Lk!CloseSend
  <2>2. UpClosed'
    <3>1. upward \in Seq(Message) /\ kept \in Nat /\ taken \in Nat
      BY <1>1 DEF UpSending, LinkInv
    <3>2. /\ upward' \in Seq(Message) /\ Len(upward') = Len(upward) + 1 /\ Len(upward) \in Nat
          /\ upward'[Len(upward')] = "eof" /\ \A i \in 1 .. Len(upward') - 1 : upward'[i] = "data"
      <4>1. /\ upward' \in Seq(Message) /\ Len(upward') = Len(upward) + 1 /\ Len(upward) \in Nat
            /\ upward'[Len(upward) + 1] = "eof" /\ \A i \in 1 .. Len(upward) : upward'[i] = upward[i]
        BY <2>1, <3>1, AppendMessage DEF Message
      <4> QED BY <1>1, <4>1 DEF UpSending
    <3> QED BY <1>1, <2>1, <3>1, <3>2 DEF UpSending, UpClosed, InPipe
  <2> QED BY <1>1, <2>1, <2>2 DEF LinkInv, Lk!OkMeansDone
<1>4. CASE Lk!SourceFails
  BY <1>1, <1>4 DEF Lk!SourceFails, Lk!Return, LinkInv, Lk!OkMeansDone
<1> QED BY <1>2, <1>3, <1>4

\* A context that is cancelled, and a connection that breaks: the caller has
\* left, or hears of an error, or reads on to the error behind its chunks.
LEMMA BreakKeeps == ASSUME LinkInv, Lk!CancelContext \/ Lk!LinkBreaks PROVE LinkInv'
<1>1. CASE Lk!CancelContext
  BY <1>1 DEF Lk!CancelContext, LinkInv, Lk!OkMeansDone
<1>2. CASE Lk!LinkBreaks /\ call.kind \notin Lk!Down
  BY <1>2 DEF Lk!LinkBreaks, Lk!Return, LinkInv, Lk!OkMeansDone
<1>3. CASE Lk!LinkBreaks /\ call.kind \in Lk!Down
  <2>1. /\ downward' = Append(downward, "err") /\ sink' = "err" /\ outcome = "none"
        /\ UNCHANGED <<call, side, taken, pump, kept, ran, outcome>>
    BY <1>3 DEF Lk!LinkBreaks, LinkInv
  <2>2. ASSUME side = "recv" PROVE DownOpen'
    <3>1. PICK k \in 0 .. Len(downward) :
            /\ \A i \in 1 .. k : downward[i] = "data"
            /\ \A i \in k + 1 .. Len(downward) : downward[i] # "data"
            /\ kept + k = taken
            /\ (\E i \in 1 .. Len(downward) : downward[i] = "eof") => taken = call.size
      BY <2>2 DEF LinkInv, DownOpen
    <3>2. /\ downward \in Seq(Message) /\ Len(downward') = Len(downward) + 1 /\ downward'[Len(downward) + 1] = "err"
          /\ Len(downward) \in Nat /\ \A i \in 1 .. Len(downward) : downward'[i] = downward[i]
      BY <2>1, AppendMessage DEF Message, LinkInv
    <3>3. k \in 0 .. Len(downward')
      BY <3>2
    <3>4. /\ \A i \in 1 .. k : downward'[i] = "data"
          /\ \A i \in k + 1 .. Len(downward') : downward'[i] # "data"
      BY <3>1, <3>2
    <3>5. (\E i \in 1 .. Len(downward') : downward'[i] = "eof") => taken' = call'.size
      BY <2>1, <3>1, <3>2
    <3> QED BY <2>1, <3>1, <3>3, <3>4, <3>5 DEF DownOpen
  <2>3. downward' \in Seq(Message) /\ call.kind \notin Lk!Up /\ call.kind \notin Lk!Unary
    BY <1>3, <2>1, ShapesDiffer, AppendMessage DEF LinkInv, Message
  <2> QED BY <1>3, <2>1, <2>2, <2>3 DEF LinkInv, Lk!OkMeansDone
<1> QED BY <1>1, <1>2, <1>3

\* What the worker does for a stream up keeps the account.
LEMMA WorkerKeeps ==
  ASSUME LinkInv, Lk!PumpRecv \/ Lk!WriterReads \/ Lk!LocalReads \/ Lk!WriterFails PROVE LinkInv'
<1>0. /\ UNCHANGED <<call, side, taken, downward, ran, outcome>> /\ kept \in Nat /\ kept' \in Nat
      /\ (outcome = "none" \/ side = "idle") /\ taken \in Nat
      /\ (pump' # "none" => pump # "none")
  BY DEF Lk!PumpRecv, Lk!WriterReads, Lk!LocalReads, Lk!WriterFails, LinkInv
<1>1. ASSUME side \in {"send", "wait"}, call.kind \in Lk!Up PROVE (UpSending \/ UpClosed \/ UpEnded)'
  <2>0. UpSending \/ UpClosed \/ UpEnded
    BY <1>1 DEF LinkInv
  <2>1. CASE Lk!PumpRecv
    <3>1. /\ pump = "recv" /\ upward # <<>> /\ upward' = Tail(upward) /\ UNCHANGED kept
          /\ \/ Head(upward) = "data" /\ pump' = "write" /\ UNCHANGED sink
             \/ Head(upward) = "eof" /\ pump' = "end" /\ sink' \in {"err", sink}
             \/ Head(upward) = "err" /\ pump' = "end" /\ UNCHANGED sink
      BY <2>1 DEF Lk!PumpRecv
    <3>2. CASE UpSending
      <4>1. /\ upward' \in Seq(Message) /\ Len(upward') = Len(upward) - 1 /\ Len(upward) \in Nat /\ Len(upward) > 0
            /\ (\A i \in 1 .. Len(upward') : upward'[i] = "data") /\ Head(upward) = "data"
        BY <3>1, <3>2, TakeMessage DEF UpSending
      <4> QED BY <1>0, <3>1, <3>2, <4>1 DEF UpSending, InPipe
    <3>3. CASE UpClosed
      <4>0. /\ upward' \in Seq(Message) /\ Len(upward') = Len(upward) - 1 /\ Len(upward) \in Nat /\ Len(upward) > 0
            /\ (\A i \in 1 .. Len(upward) - 1 : upward'[i] = upward[i + 1]) /\ Head(upward) = upward[1]
        BY <3>1, <3>3, TakeMessage DEF UpClosed
      <4>1. CASE Len(upward) = 1
        <5>1. Head(upward) = "eof" /\ upward' = <<>>
          BY <3>3, <4>0, <4>1 DEF UpClosed
        <5> QED BY <1>0, <3>1, <3>3, <4>0, <4>1, <5>1 DEF UpClosed, UpEnded, InPipe
      <4>2. CASE Len(upward) > 1
        <5>1. /\ Head(upward) = "data" /\ upward'[Len(upward')] = "eof" /\ Len(upward') > 0
              /\ \A i \in 1 .. Len(upward') - 1 : upward'[i] = "data"
          BY <3>3, <4>0, <4>2 DEF UpClosed
        <5> QED BY <1>0, <3>1, <3>3, <4>0, <4>2, <5>1 DEF UpClosed, InPipe
      <4> QED BY <3>3, <4>0, <4>1, <4>2 DEF UpClosed
    <3>4. CASE UpEnded
      BY <3>1, <3>4 DEF UpEnded
    <3> QED BY <2>0, <3>2, <3>3, <3>4
  <2>2. CASE Lk!WriterReads
    <3>1. /\ UNCHANGED upward
          /\ \/ pump = "write" /\ kept' = kept + 1 /\ pump' = "recv" /\ UNCHANGED sink
             \/ pump = "end" /\ UNCHANGED <<kept, pump>>
      BY <2>2 DEF Lk!WriterReads
    <3>2. CASE UpSending
      BY <1>0, <3>1, <3>2 DEF UpSending, InPipe
    <3>3. CASE UpClosed
      BY <1>0, <3>1, <3>3 DEF UpClosed, InPipe
    <3>4. CASE UpEnded
      BY <1>0, <3>1, <3>4 DEF UpEnded
    <3> QED BY <2>0, <3>2, <3>3, <3>4
  <2>3. CASE Lk!LocalReads
    <3>1. /\ upward # <<>> /\ upward' = Tail(upward) /\ UNCHANGED pump
          /\ IF Head(upward) = "data" THEN kept' = kept + 1 /\ UNCHANGED sink
             ELSE UNCHANGED kept
      BY <2>3 DEF Lk!LocalReads
    <3>0. pump = "none"
      BY <2>3 DEF Lk!LocalReads, LinkInv
    <3>2. CASE UpSending
      <4>1. /\ upward' \in Seq(Message) /\ Len(upward') = Len(upward) - 1 /\ Len(upward) \in Nat /\ Len(upward) > 0
            /\ (\A i \in 1 .. Len(upward') : upward'[i] = "data") /\ Head(upward) = "data"
        BY <3>1, <3>2, TakeMessage DEF UpSending
      <4> QED BY <1>0, <3>1, <3>2, <4>1, <3>0 DEF UpSending, InPipe
    <3>3. CASE UpClosed
      <4>0. /\ upward' \in Seq(Message) /\ Len(upward') = Len(upward) - 1 /\ Len(upward) \in Nat /\ Len(upward) > 0
            /\ (\A i \in 1 .. Len(upward) - 1 : upward'[i] = upward[i + 1]) /\ Head(upward) = upward[1]
        BY <3>1, <3>3, TakeMessage DEF UpClosed
      <4>1. CASE Len(upward) = 1
        <5>1. Head(upward) = "eof" /\ upward' = <<>>
          BY <3>3, <4>0, <4>1 DEF UpClosed
        <5> QED BY <1>0, <3>1, <3>3, <4>0, <4>1, <5>1, <3>0 DEF UpClosed, UpEnded, InPipe
      <4>2. CASE Len(upward) > 1
        <5>1. /\ Head(upward) = "data" /\ upward'[Len(upward')] = "eof" /\ Len(upward') > 0
              /\ \A i \in 1 .. Len(upward') - 1 : upward'[i] = "data"
          BY <3>3, <4>0, <4>2 DEF UpClosed
        <5> QED BY <1>0, <3>1, <3>3, <4>0, <4>2, <5>1, <3>0 DEF UpClosed, InPipe
      <4> QED BY <3>3, <4>0, <4>1, <4>2 DEF UpClosed
    <3>4. CASE UpEnded
      BY <3>1, <3>4 DEF UpEnded
    <3> QED BY <2>0, <3>2, <3>3, <3>4
  <2>4. CASE Lk!WriterFails
    BY <1>0, <2>0, <2>4 DEF Lk!WriterFails, UpSending, UpClosed, UpEnded, InPipe
  <2> QED BY <2>1, <2>2, <2>3, <2>4
<1>2. ASSUME side = "recv" PROVE DownOpen'
  <2>1. call.kind \in Lk!Down /\ call.kind \notin Lk!Up /\ DownOpen
    BY <1>2, ShapesDiffer DEF LinkInv
  <2>2. UNCHANGED kept
    BY <2>1 DEF Lk!PumpRecv, Lk!WriterReads, Lk!LocalReads, Lk!WriterFails
  <2>3. sink' = "run" => sink = "run"
    BY <2>1 DEF Lk!PumpRecv, Lk!WriterReads, Lk!LocalReads, Lk!WriterFails
  <2> QED BY <1>0, <2>1, <2>2, <2>3 DEF DownOpen
<1>3. call.kind \in Lk!Unary => UNCHANGED sink
  BY ShapesDiffer DEF LinkInv, Lk!PumpRecv, Lk!WriterReads, Lk!LocalReads, Lk!WriterFails
<1>4. outcome = "ok" /\ call.kind \notin Lk!Down => sink' = "ok" /\ UNCHANGED kept
  BY DEF Lk!PumpRecv, Lk!WriterReads, Lk!LocalReads, Lk!WriterFails, LinkInv
<1>5. outcome = "ok" /\ call.kind \in Lk!Down => UNCHANGED kept
  BY ShapesDiffer DEF Lk!PumpRecv, Lk!WriterReads, Lk!LocalReads, Lk!WriterFails
<1>6. outcome = "ok" => pump' \notin {"recv", "write"}
  BY DEF Lk!PumpRecv, Lk!WriterReads, Lk!LocalReads, Lk!WriterFails, LinkInv
<1> QED BY <1>0, <1>1, <1>2, <1>3, <1>4, <1>5, <1>6 DEF LinkInv, Lk!OkMeansDone

\* What the caller of a stream up hears: only after the end of the stream was
\* read may it be told of a success.
LEMMA UpReturnsKeeps == ASSUME LinkInv, Lk!UpReturns PROVE LinkInv'
<1>1. /\ call.kind \in Lk!Up /\ call.kind \notin Lk!Down /\ call.kind \notin Lk!Unary
      /\ side \in {"send", "wait"} /\ side' = "idle" /\ (UpSending \/ UpClosed \/ UpEnded)
      /\ outcome' = IF sink = "ok" /\ side = "wait" THEN "ok" ELSE "error"
      /\ UNCHANGED <<call, taken, downward, pump, sink, kept, ran>>
  BY ShapesDiffer DEF Lk!UpReturns, Lk!Return, LinkInv
<1>2. outcome' = "ok" => sink = "ok" /\ kept = call.size /\ pump \notin {"recv", "write"}
  BY <1>1 DEF UpSending, UpClosed, UpEnded
<1> QED BY <1>1, <1>2 DEF LinkInv, Lk!OkMeansDone

\* What the worker sends down, and how it ends.
LEMMA ProduceKeeps ==
  ASSUME LinkInv, Lk!Produce \/ Lk!ProduceEnds \/ Lk!ProduceFails PROVE LinkInv'
<1>1. /\ call.kind \in Lk!Down /\ sink = "run" /\ call.kind \notin Lk!Up /\ call.kind \notin Lk!Unary
      /\ UNCHANGED <<call, side, pump, kept, ran, outcome>> /\ taken' \in Nat
      /\ \/ Lk!Produce /\ taken' = taken + 1 /\ downward' = Append(downward, "data") /\ UNCHANGED sink
         \/ Lk!ProduceEnds /\ UNCHANGED taken /\ taken = call.size /\ sink' = "ok"
            /\ downward' = Append(downward, "eof")
         \/ Lk!ProduceFails /\ UNCHANGED taken /\ sink' = "err" /\ downward' = Append(downward, "err")
  BY ShapesDiffer DEF Lk!Produce, Lk!ProduceEnds, Lk!ProduceFails, LinkInv
<1>2. PICK m \in Message : downward' = Append(downward, m) /\ (m = "data" <=> taken' = taken + 1)
        /\ (m # "data" => UNCHANGED taken) /\ (m = "data" <=> sink' = "run")
        /\ (m = "eof" => taken = call.size)
  BY <1>1 DEF Message, LinkInv
<1>3. /\ downward \in Seq(Message) /\ downward' \in Seq(Message) /\ Len(downward') = Len(downward) + 1
      /\ Len(downward) \in Nat /\ downward'[Len(downward) + 1] = m
      /\ \A i \in 1 .. Len(downward) : downward'[i] = downward[i]
  BY <1>2, AppendMessage DEF LinkInv
<1>4. ASSUME side = "recv" PROVE DownOpen'
  <2>1. /\ \A i \in 1 .. Len(downward) : downward[i] = "data"
        /\ kept + Len(downward) = taken /\ kept \in Nat /\ taken \in Nat
    BY <1>1, <1>3, <1>4 DEF LinkInv, DownOpen
  <2>2. CASE m = "data"
    <3>1. \A i \in 1 .. Len(downward') : downward'[i] = "data"
      BY <1>3, <2>1, <2>2
    <3>2. kept' + Len(downward') = taken' /\ Len(downward') \in 0 .. Len(downward')
      BY <1>1, <1>2, <1>3, <2>1, <2>2
    <3> QED BY <1>3, <3>1, <3>2 DEF DownOpen
  <2>3. CASE m # "data"
    <3>1. /\ Len(downward) \in 0 .. Len(downward') /\ \A i \in 1 .. Len(downward) : downward'[i] = "data"
          /\ \A i \in Len(downward) + 1 .. Len(downward') : downward'[i] # "data"
      BY <1>3, <2>1, <2>3
    <3>2. /\ kept' + Len(downward) = taken' /\ sink' # "run"
          /\ (\E i \in 1 .. Len(downward') : downward'[i] = "eof") => taken' = call'.size
      BY <1>1, <1>2, <1>3, <2>1, <2>3
    <3> QED BY <3>1, <3>2 DEF DownOpen
  <2> QED BY <2>2, <2>3
<1> QED BY <1>1, <1>3, <1>4 DEF LinkInv, Lk!OkMeansDone

\* What the caller reads, and what it takes the end of the stream for.
LEMMA PipeKeeps ==
  ASSUME LinkInv, Lk!RecvChunk \/ Lk!DownReturns \/ Lk!ReaderLeaves \/ Lk!OrphanEnds PROVE LinkInv'
<1>1. /\ call.kind \in Lk!Down /\ call.kind \notin Lk!Up /\ call.kind \notin Lk!Unary
      /\ UNCHANGED <<call, taken, pump, ran>>
  BY ShapesDiffer DEF Lk!RecvChunk, Lk!DownReturns, Lk!ReaderLeaves, Lk!OrphanEnds
<1>2. CASE Lk!RecvChunk
  <2>1. /\ downward \in Seq(Message) /\ kept \in Nat /\ taken \in Nat /\ downward # <<>>
        /\ Head(downward) = "data" /\ downward' = Tail(downward) /\ kept' = kept + 1 /\ side = "recv"
        /\ UNCHANGED <<side, sink, outcome>> /\ outcome = "none"
    BY <1>2 DEF Lk!RecvChunk, LinkInv
  <2>2. PICK k \in 0 .. Len(downward) :
          /\ \A i \in 1 .. k : downward[i] = "data"
          /\ \A i \in k + 1 .. Len(downward) : downward[i] # "data"
          /\ kept + k = taken
          /\ sink = "run" => k = Len(downward)
          /\ (\E i \in 1 .. Len(downward) : downward[i] = "eof") => taken = call.size
    BY <2>1 DEF LinkInv, DownOpen
  <2>3. /\ downward' \in Seq(Message) /\ Len(downward') = Len(downward) - 1 /\ Len(downward) \in Nat /\ Len(downward) > 0
        /\ (\A i \in 1 .. Len(downward) - 1 : downward'[i] = downward[i + 1]) /\ downward[1] = "data"
    BY <2>1, TakeMessage
  <2>4. k > 0 /\ k - 1 \in 0 .. Len(downward')
    BY <2>2, <2>3
  <2>5. /\ \A i \in 1 .. k - 1 : downward'[i] = "data"
        /\ \A i \in k - 1 + 1 .. Len(downward') : downward'[i] # "data"
    BY <2>2, <2>3, <2>4
  <2>6. kept' + (k - 1) = taken' /\ (sink' = "run" => k - 1 = Len(downward')) /\ kept' \in Nat
    <3>0. k \in Nat /\ kept + k = taken
      BY <2>2, <2>3
    <3>1. kept \in Nat /\ taken \in Nat /\ kept' = kept + 1 /\ taken' = taken
      BY <1>1, <2>1
    <3>2. sink' = "run" => k - 1 = Len(downward')
      BY <2>1, <2>2, <2>3
    <3> QED BY <3>0, <3>1, <3>2
  <2>7. (\E i \in 1 .. Len(downward') : downward'[i] = "eof") => taken' = call'.size
    BY <1>1, <2>2, <2>3
  <2>8. DownOpen'
    BY <2>4, <2>5, <2>6, <2>7 DEF DownOpen
  <2> QED BY <1>1, <2>1, <2>3, <2>6, <2>8 DEF LinkInv, Lk!OkMeansDone
<1>3. CASE Lk!DownReturns
  <2>1. /\ side = "recv" /\ downward # <<>> /\ Head(downward) # "data" /\ side' = "idle"
        /\ outcome' = CASE call.kind = "PullImage" -> Lk!PullEnd
                       [] call.kind = "EnsureDepot" -> Lk!DepotEnd
                       [] OTHER -> Lk!StreamEnd
        /\ downward' = <<>> /\ UNCHANGED <<sink, kept>> /\ downward \in Seq(Message)
        /\ pump = "none" /\ kept \in Nat /\ taken \in Nat /\ DownOpen
    BY <1>1, <1>3 DEF Lk!DownReturns, Lk!Return, LinkInv
  <2>2. Head(downward) = "eof" => kept = call.size
    <3>1. Len(downward) \in Nat /\ Len(downward) > 0 /\ Head(downward) = downward[1]
      BY <2>1, TakeMessage
    <3> QED BY <2>1, <3>1 DEF DownOpen
  <2>3. outcome' = "ok" /\ ~(call.kind = "PullImage" /\ call.remote) => kept = call.size
    BY <2>1, <2>2 DEF Lk!PullEnd, Lk!DepotEnd, Lk!StreamEnd
  <2>4. downward' \in Seq(Message)
    BY <2>1
  <2> QED BY <1>1, <2>1, <2>3, <2>4 DEF LinkInv, Lk!OkMeansDone
<1>4. CASE Lk!ReaderLeaves
  BY <1>1, <1>4 DEF Lk!ReaderLeaves, Lk!Return, LinkInv, Lk!OkMeansDone
<1>5. CASE Lk!OrphanEnds
  <2>1. /\ UNCHANGED <<side, downward, kept, outcome>> /\ sink = "run" /\ sink' = "err"
    BY <1>5 DEF Lk!OrphanEnds
  <2>2. side = "recv" => DownOpen'
    BY <1>1, <2>1 DEF LinkInv, DownOpen
  <2> QED BY <1>1, <2>1, <2>2 DEF LinkInv, Lk!OkMeansDone
<1> QED BY <1>2, <1>3, <1>4, <1>5

\* Every call keeps its account.
LEMMA LinkStep == ASSUME LinkInv, [Lk!Next]_(Lk!vars) PROVE LinkInv'
<1>1. CASE UNCHANGED Lk!vars
  BY <1>1 DEF Lk!vars, LinkInv, UpSending, UpClosed, UpEnded, InPipe, DownOpen, Lk!OkMeansDone
<1>2. ASSUME NEW k \in Procedures, NEW remote \in BOOLEAN, NEW size \in 0 .. MaxChunks,
             Lk!Invoke(k, remote, size)
      PROVE  LinkInv'
  BY <1>2, LinkAssumption, InvokeKeeps
<1> QED BY <1>1, <1>2, PlainKeeps, SendKeeps, BreakKeeps, WorkerKeeps, UpReturnsKeeps,
           ProduceKeeps, PipeKeeps DEF Lk!Next

\* Before the first call nothing is under way.
LEMMA LinkStarts == ASSUME Lk!Init PROVE LinkInv
BY ShapesDiffer DEF Lk!Init, LinkInv, Lk!OkMeansDone

-----------------------------------------------------------------------------
(* A container, for any number of starts, failures and deaths of the worker.  *)

Starting == {"pasta", "start", "register"}
Call ==
  [pc : {"idle", "create", "stop", "killed", "remove", "save"} \cup Starting,
   new : 0 .. launched, old : 0 .. launched]

HostNumbers ==
  /\ alive \in BOOLEAN /\ manifest \in BOOLEAN
  /\ launched \in 0 .. MaxStarts /\ mishaps \in Nat
  /\ stateFile \in 0 .. launched /\ crun \in 0 .. launched
  /\ pastaFile \in 0 .. launched /\ inst \in 0 .. launched
HostSets ==
  /\ proc \subseteq 1 .. launched /\ pasta \subseteq 1 .. launched
  /\ exited \subseteq 1 .. launched
HostMaps ==
  /\ doing \in Call
  /\ waiters \in [1 .. MaxStarts -> {"none", "poll", "cleaned", "tell", "recovered"}]
  /\ tracker \in {"none", "running", "exited"}
HostTypes == HostNumbers /\ HostSets /\ HostMaps

\* A container that runs has its ports, or was adopted without.
Ported(p) == p \in pasta \/ (mishaps > 0 /\ waiters[p] = "recovered")

\* Only what crun knows lives; while a call starts a container no other lives, and
\* what the worker holds for running, or is about to, has its ports.
HostInv ==
  /\ HostTypes
  /\ ~alive => doing = Cf!Idle /\ inst = 0
  /\ doing.pc = "create" => launched < MaxStarts
  /\ \A p \in 1 .. MaxStarts : p > launched => waiters[p] = "none"
  /\ proc \subseteq {crun}
  /\ doing.pc \in Starting \cup {"save"} => proc \subseteq {doing.new} /\ doing.new # 0
  /\ doing.pc \in Starting => inst # doing.new
  /\ doing.pc \in {"start", "register", "save"} => proc \subseteq pasta
  /\ alive /\ inst \in proc => Ported(inst)

\* With failures left out, and each start after the last exit was noticed: whoever
\* waits for a container waits for the one that lives, which is in the map and on
\* disk whenever a call is not about to put it there.
CalmInv ==
  /\ mishaps = 0
  /\ doing.pc = "save" => inst = doing.new
  /\ doing.pc = "remove" => proc = {} /\ inst = 0
  /\ alive /\ doing.pc \notin Starting => proc \subseteq {inst}
  /\ doing.pc \notin Starting \cup {"save"} => proc \subseteq {stateFile}
  /\ exited \cap proc = {}
  /\ \A p \in 1 .. MaxStarts :
       /\ waiters[p] = "cleaned" => p \notin proc
       /\ ~alive => waiters[p] = "none"
       /\ waiters[p] \in {"poll", "cleaned", "recovered"} =>
            proc \subseteq {p} /\ doing.pc \notin {"create", "pasta", "start"}

PatientInv == HostInv /\ CalmInv

\* Without failures and with patience the worker does what it might do anyway.
LEMMA PatientIsAllowed ==
  ASSUME HostInv, [Cn!Next]_(Cn!vars) PROVE [Cf!Next]_(Cf!vars)
<1>0. ~Cn!Fault
  BY DEF Cn!Fault, HostInv, HostTypes, HostNumbers, HostSets, HostMaps
<1>1. Cn!Idle = Cf!Idle /\ Cn!Pids = Cf!Pids
  BY DEF Cn!Idle, Cf!Idle, Cn!Pids, Cf!Pids
<1>2. CASE Cn!CreateInstance \/ Cn!StartInstance \/ Cn!CrunCreate
  BY <1>1, <1>2 DEF Cn!CreateInstance, Cn!StartInstance, Cn!CrunCreate, Cn!At, Cn!Goto,
     Cf!CreateInstance, Cf!StartInstance, Cf!CrunCreate, Cf!At, Cf!Goto, Cf!Next
<1>3. CASE Cn!StartFails
  BY <1>0, <1>3 DEF Cn!StartFails
<1>4. CASE Cn!PastaStarts \/ Cn!CrunStart \/ Cn!Register \/ Cn!SaveState
  BY <1>0, <1>1, <1>4 DEF Cn!PastaStarts, Cn!CrunStart, Cn!Register, Cn!SaveState, Cn!StartPasta, Cn!At,
     Cn!Goto, Cn!Counted, Cf!PastaStarts, Cf!CrunStart, Cf!Register, Cf!SaveState, Cf!StartPasta,
     Cf!At, Cf!Goto, Cf!Counted, Cf!Next
<1>5. CASE \E p \in Cn!Pids : \/ Cn!ContainerExits(p) \/ Cn!PastaQuits(p) \/ Cn!WatcherCleans(p)
                              \/ Cn!WatcherStores(p) \/ Cn!WatcherTells(p)
  BY <1>1, <1>5 DEF Cn!ContainerExits, Cn!PastaQuits, Cn!WatcherCleans, Cn!WatcherStores,
     Cn!WatcherTells, Cn!Delete, Cf!ContainerExits, Cf!PastaQuits, Cf!WatcherCleans,
     Cf!WatcherStores, Cf!WatcherTells, Cf!Delete, Cf!Next
<1>6. CASE Cn!StopInstance \/ Cn!StopTimesOut \/ Cn!StopReturns \/ Cn!StopCancelled
  BY <1>1, <1>6 DEF Cn!StopInstance, Cn!StopTimesOut, Cn!StopReturns, Cn!StopCancelled, Cn!At, Cn!Goto,
     Cf!StopInstance, Cf!StopTimesOut, Cf!StopReturns, Cf!StopCancelled, Cf!At, Cf!Goto, Cf!Next
<1>7. CASE Cn!RemoveInstance \/ Cn!RemoveFinishes
  BY <1>1, <1>7 DEF Cn!RemoveInstance, Cn!RemoveFinishes, Cn!At, Cf!RemoveInstance, Cf!RemoveFinishes,
     Cf!At, Cf!Next
<1>8. CASE Cn!Crash \/ Cn!Recover
  BY <1>0, <1>1, <1>8 DEF Cn!Crash, Cn!Recover, Cn!StartPasta, Cf!Crash, Cf!Recover, Cf!StartPasta, Cf!Next
<1>9. CASE UNCHANGED Cn!vars
  BY <1>9 DEF Cn!vars, Cf!vars
<1> QED BY <1>2, <1>3, <1>4, <1>5, <1>6, <1>7, <1>8, <1>9 DEF Cn!Next

\* The call that goes on is a call.
LEMMA CallGoesOn ==
  ASSUME HostTypes,
         NEW pc \in {"idle", "create", "stop", "killed", "remove", "save"} \cup Starting
  PROVE  /\ [doing EXCEPT !.pc = pc] \in Call
         /\ [doing EXCEPT !.pc = pc].pc = pc
         /\ [doing EXCEPT !.pc = pc].new = doing.new
         /\ [doing EXCEPT !.pc = pc].old = doing.old
         /\ Cf!Idle \in Call /\ Cf!Idle.pc = "idle"
BY DEF HostTypes, HostNumbers, HostSets, HostMaps, Call, Cf!Idle

\* A step that starts no container, adopts none and takes no ports from one that
\* lives; the call goes on as far as it may.
LEMMA HostRests ==
  ASSUME HostInv, HostTypes', UNCHANGED <<alive, launched, crun>>,
         proc' \subseteq proc, inst' \in {inst, 0}, mishaps' \in {mishaps, mishaps + 1},
         \A p \in proc' : p \in pasta => p \in pasta',
         \A p \in proc' : waiters[p] = "recovered" => waiters'[p] = "recovered",
         \A p \in 1 .. MaxStarts : waiters[p] = "none" => waiters'[p] = "none",
         doing' = doing \/ doing' = Cf!Idle
         \/ (doing'.pc \in {"create", "stop", "killed", "remove"} /\ alive)
         \/ (doing.pc = "start" /\ doing'.pc = "register" /\ doing'.new = doing.new /\ alive),
         doing'.pc = "create" => launched < MaxStarts
  PROVE  HostInv'
<1>1. mishaps > 0 => mishaps' > 0
  BY DEF HostInv, HostTypes, HostNumbers, HostSets, HostMaps
<1>2. alive' /\ inst' \in proc' => Ported(inst)'
  BY <1>1 DEF HostInv, HostTypes, HostNumbers, HostSets, HostMaps, Ported
<1>3. Cf!Idle.pc = "idle" /\ Cf!Idle' = Cf!Idle
  BY DEF Cf!Idle
<1>4. \A p \in 1 .. MaxStarts : p > launched' => waiters'[p] = "none"
  BY DEF HostInv
<1>5. doing'.pc = "create" => launched' < MaxStarts
  OBVIOUS
<1>6. /\ doing'.pc \in Starting \cup {"save"} => proc' \subseteq {doing'.new} /\ doing'.new # 0
      /\ doing'.pc \in Starting => inst' # doing'.new
      /\ doing'.pc \in {"start", "register", "save"} => proc' \subseteq pasta'
  BY <1>3 DEF HostInv, Starting
<1> QED BY <1>2, <1>3, <1>4, <1>5, <1>6 DEF HostInv

\* A container is created, gets its ports, runs and is registered.
LEMMA StartingKeeps ==
  ASSUME HostInv, MaxStarts \in Nat,
         \/ Cf!CreateInstance \/ Cf!StartInstance \/ Cf!CrunCreate \/ Cf!StartFails
         \/ Cf!PastaStarts \/ Cf!CrunStart \/ Cf!Register \/ Cf!SaveState
  PROVE  HostInv'
<1>0. HostTypes
  BY DEF HostInv
<1>1. CASE Cf!CreateInstance
  BY <1>0, <1>1, HostRests DEF Cf!CreateInstance, HostTypes, HostNumbers, HostSets, HostMaps, Call, HostInv, Cf!At
<1>2. CASE Cf!StartInstance
  <2>1. /\ doing' = [doing EXCEPT !.pc = "create"] /\ launched < MaxStarts /\ alive
        /\ UNCHANGED <<alive, manifest, stateFile, crun, proc, pasta, pastaFile, inst, exited, waiters,
                       tracker, launched, mishaps>>
    BY <1>2 DEF Cf!StartInstance, Cf!At, Cf!Goto
  <2>2. doing' \in Call /\ doing'.pc = "create"
    BY <1>0, <2>1, CallGoesOn
  <2>3. HostTypes'
    <3>1. HostNumbers'
      BY <1>0, <2>1, <2>2 DEF HostTypes, HostNumbers, HostSets
    <3>2. HostSets'
      BY <1>0, <2>1, <2>2 DEF HostTypes, HostNumbers, HostSets
    <3>3. HostMaps'
      BY <1>0, <2>1, <2>2 DEF HostTypes, HostNumbers, HostMaps, Call
    <3> QED BY <3>1, <3>2, <3>3 DEF HostTypes
  <2> QED BY <2>1, <2>2, <2>3, HostRests
<1>3. CASE Cf!CrunCreate
  <2>1. CASE crun = 0
    <3>1. /\ launched' = launched + 1 /\ crun' = launched + 1 /\ proc' = proc \cup {launched + 1}
          /\ doing' = [doing EXCEPT !.pc = "pasta", !.new = launched + 1] /\ alive
          /\ doing.pc = "create"
          /\ UNCHANGED <<alive, manifest, stateFile, pasta, pastaFile, inst, exited, waiters, tracker, mishaps>>
      BY <1>3, <2>1 DEF Cf!CrunCreate, Cf!At
    <3>2. launched < MaxStarts /\ launched \in Nat /\ proc = {}
      BY <1>0, <2>1, <3>1 DEF HostInv, HostTypes, HostNumbers, HostSets, HostMaps
    <3>3. /\ doing' \in [pc : {"pasta"}, new : {launched + 1}, old : 0 .. launched]
      BY <1>0, <3>1 DEF HostTypes, HostNumbers, HostSets, HostMaps, Call
    <3>4. HostTypes'
      <4>1. HostNumbers'
        BY <1>0, <3>1, <3>2, <3>3 DEF HostTypes, HostNumbers, HostSets
      <4>2. HostSets'
        BY <1>0, <3>1, <3>2, <3>3 DEF HostTypes, HostNumbers, HostSets
      <4>3. HostMaps'
        BY <1>0, <3>1, <3>2, <3>3 DEF HostTypes, HostNumbers, HostMaps, Call, Starting
      <4> QED BY <4>1, <4>2, <4>3 DEF HostTypes
    <3>5. proc' = {launched + 1} /\ doing'.pc = "pasta" /\ doing'.new = launched + 1 /\ inst # launched + 1
      BY <1>0, <3>1, <3>2, <3>3 DEF HostTypes, HostNumbers, HostSets, HostMaps
    <3> QED BY <3>1, <3>2, <3>4, <3>5 DEF HostInv, Starting
  <2>2. CASE crun # 0
    <3>1. /\ doing' = Cf!Idle
          /\ UNCHANGED <<alive, manifest, stateFile, crun, proc, pasta, pastaFile, inst, exited, waiters,
                         tracker, launched, mishaps>>
      BY <1>3, <2>2 DEF Cf!CrunCreate
    <3>2. HostTypes'
      <4>1. HostNumbers'
        BY <1>0, <3>1, CallGoesOn DEF HostTypes, HostNumbers, HostSets
      <4>2. HostSets'
        BY <1>0, <3>1, CallGoesOn DEF HostTypes, HostNumbers, HostSets
      <4>3. HostMaps'
        BY <1>0, <3>1, CallGoesOn DEF HostTypes, HostNumbers, HostMaps, Call
      <4> QED BY <4>1, <4>2, <4>3 DEF HostTypes
    <3>3. doing'.pc = "idle"
      BY <3>1 DEF Cf!Idle
    <3> QED BY <3>1, <3>2, <3>3, HostRests
  <2> QED BY <2>1, <2>2
<1>4. CASE Cf!StartFails
  <2>1. /\ crun' = 0 /\ proc' = proc \ {crun} /\ pasta' = pasta \ {doing.new} /\ doing' = Cf!Idle
        /\ mishaps' = mishaps + 1
        /\ UNCHANGED <<alive, manifest, stateFile, pastaFile, inst, exited, waiters, tracker, launched>>
    BY <1>4 DEF Cf!StartFails, Cf!Delete, Cf!Fault, Cf!Counted
  <2>2. proc' = {} /\ doing'.pc = "idle"
    BY <2>1 DEF HostInv, Cf!Idle
  <2>3. HostTypes'
    <3>1. HostNumbers'
      BY <1>0, <2>1, <2>2, CallGoesOn DEF HostTypes, HostNumbers, HostSets
    <3>2. HostSets'
      BY <1>0, <2>1, <2>2, CallGoesOn DEF HostTypes, HostNumbers, HostSets
    <3>3. HostMaps'
      BY <1>0, <2>1, <2>2, CallGoesOn DEF HostTypes, HostNumbers, HostMaps, Call
    <3> QED BY <3>1, <3>2, <3>3 DEF HostTypes
  <2> QED BY <2>1, <2>2, <2>3 DEF HostInv, Starting
<1>5. CASE Cf!PastaStarts
  <2>1. /\ pasta' = (pasta \ {pastaFile}) \cup {doing.new} /\ pastaFile' = doing.new
        /\ doing' = [doing EXCEPT !.pc = "start"] /\ alive /\ doing.pc = "pasta"
        /\ UNCHANGED <<alive, manifest, stateFile, crun, proc, inst, exited, waiters, tracker, launched, mishaps>>
    BY <1>5 DEF Cf!PastaStarts, Cf!At, Cf!Goto, Cf!StartPasta
  <2>2. doing' \in Call /\ doing'.pc = "start" /\ doing'.new = doing.new
    BY <1>0, <2>1, CallGoesOn DEF Starting
  <2>3. doing.new \in 1 .. launched
    BY <1>0, <2>1 DEF HostInv, HostTypes, HostNumbers, HostSets, HostMaps, Call, Starting
  <2>4. HostTypes'
    <3>1. HostNumbers'
      BY <1>0, <2>1, <2>2, <2>3 DEF HostTypes, HostNumbers, HostSets
    <3>2. HostSets'
      BY <1>0, <2>1, <2>2, <2>3 DEF HostTypes, HostNumbers, HostSets
    <3>3. HostMaps'
      BY <1>0, <2>1, <2>2, <2>3 DEF HostTypes, HostNumbers, HostMaps, Call
    <3> QED BY <3>1, <3>2, <3>3 DEF HostTypes
  <2>5. proc \subseteq {doing.new} /\ inst # doing.new
    BY <2>1 DEF HostInv, Starting
  <2> QED BY <2>1, <2>2, <2>3, <2>4, <2>5 DEF HostInv, Starting
<1>6. CASE Cf!CrunStart
  <2>1. /\ waiters' = [waiters EXCEPT ![doing.new] = "poll"]
        /\ doing' = [doing EXCEPT !.pc = "register"] /\ alive /\ doing.pc = "start"
        /\ UNCHANGED <<alive, manifest, stateFile, crun, proc, pasta, pastaFile, inst, exited, tracker,
                       launched, mishaps>>
    BY <1>6 DEF Cf!CrunStart, Cf!At, Cf!Goto
  <2>2. doing' \in Call /\ doing'.pc = "register" /\ doing'.new = doing.new
    BY <1>0, <2>1, CallGoesOn DEF Starting
  <2>3. HostTypes'
    <3>1. HostNumbers'
      BY <1>0, <2>1, <2>2 DEF HostTypes, HostNumbers, HostSets
    <3>2. HostSets'
      BY <1>0, <2>1, <2>2 DEF HostTypes, HostNumbers, HostSets
    <3>3. HostMaps'
      BY <1>0, <2>1, <2>2 DEF HostTypes, HostNumbers, HostMaps, Call
    <3> QED BY <3>1, <3>2, <3>3 DEF HostTypes
  <2>4. proc \subseteq {doing.new} /\ inst # doing.new /\ proc \subseteq pasta
    BY <2>1 DEF HostInv, Starting
  <2>5. \A p \in 1 .. MaxStarts : p > launched' => waiters'[p] = "none"
    <3>1. doing.new <= launched /\ doing.new \in Nat /\ launched \in Nat
      BY <1>0 DEF HostTypes, HostNumbers, HostMaps, Call
    <3> QED BY <2>1, <3>1 DEF HostInv, HostTypes, HostMaps
  <2> QED BY <2>1, <2>2, <2>3, <2>4, <2>5 DEF HostInv, Starting
<1>7. CASE Cf!Register
  <2>1. /\ inst' = doing.new /\ doing' = [doing EXCEPT !.pc = "save"] /\ alive /\ doing.pc = "register"
        /\ UNCHANGED <<alive, manifest, stateFile, crun, proc, pasta, pastaFile, exited, waiters, tracker,
                       launched, mishaps>>
    BY <1>7 DEF Cf!Register, Cf!At, Cf!Goto
  <2>2. doing' \in Call /\ doing'.pc = "save" /\ doing'.new = doing.new
    BY <1>0, <2>1, CallGoesOn
  <2>3. HostTypes'
    <3>1. HostNumbers'
      <4>1. doing.new \in 0 .. launched
        BY <1>0 DEF HostTypes, HostMaps, Call
      <4> QED BY <1>0, <2>1, <4>1 DEF HostTypes, HostNumbers
    <3>2. HostSets'
      BY <1>0, <2>1, <2>2 DEF HostTypes, HostNumbers, HostSets
    <3>3. HostMaps'
      BY <1>0, <2>1, <2>2 DEF HostTypes, HostNumbers, HostMaps, Call
    <3> QED BY <3>1, <3>2, <3>3 DEF HostTypes
  <2>4. proc \subseteq {doing.new} /\ proc \subseteq pasta /\ doing.new # 0
    BY <2>1 DEF HostInv, Starting
  <2> QED BY <2>1, <2>2, <2>3, <2>4 DEF HostInv, Starting, Ported
<1>8. CASE Cf!SaveState
  <2>1. /\ stateFile' \in {stateFile, doing.new} /\ mishaps' \in {mishaps, mishaps + 1}
        /\ tracker' = "running" /\ doing' = Cf!Idle /\ alive
        /\ UNCHANGED <<alive, manifest, crun, proc, pasta, pastaFile, inst, exited, waiters, launched>>
    BY <1>8 DEF Cf!SaveState, Cf!At, Cf!Fault, Cf!Counted
  <2>2. HostTypes'
    <3>1. HostNumbers'
      <4>1. doing.new \in 0 .. launched
        BY <1>0 DEF HostTypes, HostMaps, Call
      <4> QED BY <1>0, <2>1, <4>1 DEF HostTypes, HostNumbers
    <3>2. HostSets'
      BY <1>0, <2>1, CallGoesOn DEF HostTypes, HostNumbers, HostSets
    <3>3. HostMaps'
      BY <1>0, <2>1, CallGoesOn DEF HostTypes, HostNumbers, HostMaps, Call
    <3> QED BY <3>1, <3>2, <3>3 DEF HostTypes
  <2>3. doing'.pc = "idle"
    BY <2>1 DEF Cf!Idle
  <2> QED BY <2>1, <2>2, <2>3, HostRests
<1> QED BY <1>1, <1>2, <1>3, <1>4, <1>5, <1>6, <1>7, <1>8

\* A container ends, its pasta follows, and its watcher does its three steps.
LEMMA WatchersKeep ==
  ASSUME HostInv, NEW p \in 1 .. MaxStarts, MaxStarts \in Nat,
         \/ Cf!ContainerExits(p) \/ Cf!PastaQuits(p) \/ Cf!WatcherCleans(p)
         \/ Cf!WatcherStores(p) \/ Cf!WatcherTells(p)
  PROVE  HostInv'
<1>0. HostTypes
  BY DEF HostInv
<1>1. CASE Cf!ContainerExits(p) \/ Cf!PastaQuits(p)
  <2>1. /\ proc' \subseteq proc /\ pasta' \subseteq pasta
        /\ \A q \in proc' : q \in pasta => q \in pasta'
        /\ UNCHANGED <<alive, manifest, stateFile, crun, pastaFile, doing, inst, exited, waiters, tracker,
                       launched, mishaps>>
    BY <1>1 DEF Cf!ContainerExits, Cf!PastaQuits
  <2>2. HostTypes'
    <3>1. HostNumbers'
      BY <1>0, <2>1 DEF HostTypes, HostNumbers, HostSets
    <3>2. HostSets'
      BY <1>0, <2>1 DEF HostTypes, HostNumbers, HostSets
    <3>3. HostMaps'
      BY <1>0, <2>1 DEF HostTypes, HostNumbers, HostMaps, Call
    <3> QED BY <3>1, <3>2, <3>3 DEF HostTypes
  <2> QED BY <2>1, <2>2, HostRests DEF HostInv
<1>2. CASE Cf!WatcherCleans(p)
  <2>1. /\ crun' = 0 /\ proc' = proc \ {crun} /\ pasta' = pasta \ {p} /\ pastaFile' = 0
        /\ waiters' = [waiters EXCEPT ![p] = "cleaned"]
        /\ UNCHANGED <<alive, manifest, stateFile, doing, inst, exited, tracker, launched, mishaps>>
    BY <1>2 DEF Cf!WatcherCleans, Cf!Delete
  <2>2. proc' = {}
    BY <2>1 DEF HostInv
  <2>3. HostTypes'
    <3>1. HostNumbers'
      BY <1>0, <2>1 DEF HostTypes, HostNumbers, HostSets
    <3>2. HostSets'
      BY <1>0, <2>1 DEF HostTypes, HostNumbers, HostSets
    <3>3. HostMaps'
      BY <1>0, <2>1 DEF HostTypes, HostNumbers, HostMaps, Call
    <3> QED BY <3>1, <3>2, <3>3 DEF HostTypes
  <2>4. \A q \in 1 .. MaxStarts : q > launched' => waiters'[q] = "none"
    BY <1>0, <1>2, <2>1 DEF Cf!WatcherCleans, HostInv, HostTypes, HostMaps
  <2> QED BY <2>1, <2>2, <2>3, <2>4 DEF HostInv
<1>3. CASE Cf!WatcherStores(p) \/ Cf!WatcherTells(p)
  <2>1. /\ stateFile' \in {stateFile, 0} /\ waiters[p] # "none"
        /\ exited' \in {exited, exited \cup {p}}
        /\ exited' = exited \/ waiters[p] \in {"cleaned", "recovered"}
        /\ \E w \in {"tell", "none"} : waiters' = [waiters EXCEPT ![p] = w]
        /\ tracker' \in {tracker, "none", "exited"}
        /\ waiters[p] = "recovered" => p \notin proc
        /\ UNCHANGED <<alive, manifest, crun, proc, pasta, pastaFile, doing, inst, launched, mishaps>>
    BY <1>3 DEF Cf!WatcherStores, Cf!WatcherTells
  <2>2. /\ \A q \in proc : waiters[q] = "recovered" => waiters'[q] = "recovered"
        /\ \A q \in 1 .. MaxStarts : waiters[q] = "none" => waiters'[q] = "none"
    BY <1>0, <2>1 DEF HostTypes, HostMaps
  <2>3. HostTypes'
    <3>1. HostNumbers'
      BY <1>0, <2>1 DEF HostTypes, HostNumbers, HostSets
    <3>2. HostSets'
      <4>1. p \in 1 .. launched
        BY <1>0, <2>1 DEF HostInv, HostTypes, HostNumbers
      <4> QED BY <1>0, <2>1, <4>1 DEF HostTypes, HostSets
    <3>3. HostMaps'
      BY <1>0, <2>1 DEF HostTypes, HostNumbers, HostMaps, Call
    <3> QED BY <3>1, <3>2, <3>3 DEF HostTypes
  <2> QED BY <2>1, <2>2, <2>3, HostRests DEF HostInv
<1> QED BY <1>1, <1>2, <1>3

\* The container is stopped or removed.
LEMMA StoppingKeeps ==
  ASSUME HostInv, MaxStarts \in Nat,
         \/ Cf!StopInstance \/ Cf!StopTimesOut \/ Cf!StopReturns \/ Cf!StopCancelled
         \/ Cf!RemoveInstance \/ Cf!RemoveFinishes
  PROVE  HostInv'
<1>0. HostTypes
  BY DEF HostInv
<1>1. /\ alive /\ proc' \subseteq proc /\ inst' \in {inst, 0}
      /\ (manifest' = manifest \/ manifest' = FALSE) /\ stateFile' \in {stateFile, 0}
      /\ tracker' \in {tracker, "none"}
      /\ UNCHANGED <<alive, crun, pasta, pastaFile, exited, waiters, launched, mishaps>>
      /\ \/ doing' = Cf!Idle
         \/ doing' = [doing EXCEPT !.pc = "stop", !.old = inst]
         \/ doing' = [doing EXCEPT !.pc = "killed"]
         \/ doing' = [doing EXCEPT !.pc = "remove", !.old = inst]
         \/ doing' = [doing EXCEPT !.pc = "remove"]
  BY DEF Cf!StopInstance, Cf!StopTimesOut, Cf!StopReturns, Cf!StopCancelled, Cf!RemoveInstance,
         Cf!RemoveFinishes, Cf!At, Cf!Goto
<1>2. doing \in Call /\ inst \in 0 .. launched
  BY <1>0 DEF HostTypes, HostNumbers, HostSets, HostMaps
<1>3. doing' = Cf!Idle \/ (doing' \in Call /\ doing'.pc \in {"stop", "killed", "remove"})
  BY <1>1, <1>2 DEF Call
<1>4. Cf!Idle \in Call /\ Cf!Idle.pc = "idle"
  BY <1>0, CallGoesOn
<1>5. HostTypes'
  <2>1. HostNumbers'
    <3>1. alive' \in BOOLEAN /\ manifest' \in BOOLEAN
      BY <1>0, <1>1, Zenon DEF HostTypes, HostNumbers
    <3>2. /\ UNCHANGED <<launched, mishaps, crun, pastaFile>>
          /\ stateFile' \in {stateFile, 0} /\ inst' \in {inst, 0}
      BY <1>1
    <3> QED BY <1>0, <3>1, <3>2 DEF HostTypes, HostNumbers
  <2>2. HostSets'
    BY <1>0, <1>1, <1>3, <1>4 DEF HostTypes, HostNumbers, HostSets
  <2>3. HostMaps'
    BY <1>0, <1>1, <1>3, <1>4 DEF HostTypes, HostNumbers, HostMaps, Call
  <2> QED BY <2>1, <2>2, <2>3 DEF HostTypes
<1> QED BY <1>1, <1>3, <1>4, <1>5, HostRests

\* The worker dies, and what it finds on disk when it is back is adopted.
LEMMA WorkerDiesKeeps ==
  ASSUME HostInv, MaxStarts \in Nat, Cf!Crash \/ Cf!Recover PROVE HostInv'
<1>0. HostTypes
  BY DEF HostInv
<1>1. CASE Cf!Crash
  <2>1. /\ alive' = FALSE /\ doing' = Cf!Idle /\ inst' = 0 /\ tracker' = "none"
        /\ waiters' = [p \in 1 .. MaxStarts |-> "none"] /\ exited' = {}
        /\ UNCHANGED <<manifest, stateFile, crun, proc, pasta, pastaFile, launched, mishaps>>
    BY <1>1 DEF Cf!Crash, Cf!Pids
  <2>2. HostTypes'
    <3>1. HostNumbers'
      <4>1. alive' \in BOOLEAN /\ manifest' \in BOOLEAN
        BY <1>0, <2>1, Zenon DEF HostTypes, HostNumbers
      <4>2. inst' = 0 /\ UNCHANGED <<launched, mishaps, stateFile, crun, pastaFile>>
        BY <2>1
      <4> QED BY <1>0, <4>1, <4>2 DEF HostTypes, HostNumbers
    <3>2. HostSets'
      BY <1>0, <2>1, CallGoesOn DEF HostTypes, HostNumbers, HostSets
    <3>3. HostMaps'
      BY <1>0, <2>1, CallGoesOn DEF HostTypes, HostNumbers, HostMaps, Call
    <3> QED BY <3>1, <3>2, <3>3 DEF HostTypes
  <2>3. doing'.pc = "idle" /\ Cf!Idle' = Cf!Idle
    BY <2>1 DEF Cf!Idle
  <2> QED BY <2>1, <2>2, <2>3 DEF HostInv, Starting
<1>2. CASE Cf!Recover
  <2>0. /\ doing = Cf!Idle /\ doing' = doing /\ doing.pc = "idle" /\ inst = 0 /\ alive' = TRUE
        /\ UNCHANGED <<manifest, crun, exited, launched>>
    BY <1>2 DEF Cf!Recover, HostInv, Cf!Idle
  <2>1. CASE stateFile \notin proc \/ ~manifest
    <3>1. /\ proc' \subseteq proc /\ stateFile' = 0
          /\ UNCHANGED <<pasta, pastaFile, inst, waiters, tracker, mishaps>>
      BY <1>2, <2>1 DEF Cf!Recover
    <3>2. HostTypes'
      <4>1. HostNumbers'
        BY <1>0, <2>0, <3>1 DEF HostTypes, HostNumbers, HostSets
      <4>2. HostSets'
        BY <1>0, <2>0, <3>1 DEF HostTypes, HostNumbers, HostSets
      <4>3. HostMaps'
        BY <1>0, <2>0, <3>1 DEF HostTypes, HostNumbers, HostMaps, Call
      <4> QED BY <4>1, <4>2, <4>3 DEF HostTypes
    <3>3. inst' \notin proc'
      BY <2>0, <3>1 DEF HostInv, HostTypes, HostNumbers, HostSets, HostMaps
    <3> QED BY <2>0, <3>1, <3>2, <3>3 DEF HostInv, Starting
  <2>2. CASE stateFile \in proc /\ manifest
    <3>1. /\ inst' = stateFile /\ tracker' = "running"
          /\ waiters' = [waiters EXCEPT ![stateFile] = "recovered"]
          /\ UNCHANGED <<stateFile, proc>>
          /\ \/ /\ pasta' = (pasta \ {pastaFile}) \cup {stateFile} /\ pastaFile' = stateFile
                /\ UNCHANGED mishaps
             \/ mishaps' = mishaps + 1 /\ pasta' = pasta \ {pastaFile} /\ UNCHANGED pastaFile
      BY <1>2, <2>2 DEF Cf!Recover, Cf!StartPasta, Cf!Fault
    <3>2. stateFile \in 1 .. launched /\ stateFile \in 1 .. MaxStarts
      BY <1>0, <2>2 DEF HostTypes, HostNumbers, HostSets, HostMaps
    <3>3. HostTypes'
      <4>1. HostNumbers'
        BY <1>0, <2>0, <3>1, <3>2 DEF HostTypes, HostNumbers, HostSets
      <4>2. HostSets'
        BY <1>0, <2>0, <3>1, <3>2 DEF HostTypes, HostNumbers, HostSets
      <4>3. HostMaps'
        BY <1>0, <2>0, <3>1, <3>2 DEF HostTypes, HostNumbers, HostMaps, Call
      <4> QED BY <4>1, <4>2, <4>3 DEF HostTypes
    <3>4. Ported(inst)'
      BY <1>0, <3>1, <3>2 DEF Ported, HostTypes, HostNumbers, HostSets, HostMaps
    <3>5. \A p \in 1 .. MaxStarts : p > launched' => waiters'[p] = "none"
      BY <1>0, <2>0, <3>1, <3>2 DEF HostInv, HostTypes, HostNumbers, HostMaps
    <3> QED BY <2>0, <3>1, <3>3, <3>4, <3>5 DEF HostInv, Starting
  <2> QED BY <2>1, <2>2
<1> QED BY <1>1, <1>2

\* One container lives at most, and it has its ports, whatever happens.
LEMMA HostStep == ASSUME HostInv, [Cf!Next]_(Cf!vars) PROVE HostInv'
<1>1. CASE UNCHANGED Cf!vars
  BY <1>1 DEF Cf!vars, HostInv, HostTypes, HostNumbers, HostSets, HostMaps, Call, Ported
<1>2. MaxStarts \in Nat /\ Cf!Pids = 1 .. MaxStarts
  BY HostAssumption DEF Cf!Pids
<1> QED BY <1>1, <1>2, StartingKeeps, WatchersKeep, StoppingKeeps, WorkerDiesKeeps DEF Cf!Next

\* A step of a worker without failures that starts and adopts no container.
LEMMA CalmRests ==
  ASSUME CalmInv, UNCHANGED <<alive, mishaps>>,
         proc' \subseteq proc, proc' = {} \/ inst' = inst, proc' = {} \/ stateFile' = stateFile,
         exited' \cap proc' = {},
         \A p \in 1 .. MaxStarts :
           \/ waiters'[p] = waiters[p]
           \/ waiters'[p] \in {"tell", "none"} /\ alive
           \/ waiters[p] = "poll" /\ waiters'[p] = "cleaned" /\ p \notin proc',
         \/ doing' = doing /\ inst' = inst
         \/ doing'.pc \in {"idle", "stop", "killed"} /\ doing.pc \notin Starting \cup {"save"}
         \/ doing'.pc = "idle" /\ proc' = {}
         \/ doing'.pc = "remove" /\ proc' = {} /\ inst' = 0
  PROVE  CalmInv'
BY DEF CalmInv, Starting

\* No waiter is at work when a start is asked for, so the one of the new container
\* is the only one.
LEMMA CalmStarting ==
  ASSUME PatientInv,
         \/ Cn!CreateInstance \/ Cn!StartInstance \/ Cn!CrunCreate \/ Cn!StartFails
         \/ Cn!PastaStarts \/ Cn!CrunStart \/ Cn!Register \/ Cn!SaveState
  PROVE  CalmInv'
<1>0. HostTypes /\ HostInv /\ CalmInv /\ ~Cn!Fault /\ Cn!Idle.pc = "idle"
  BY DEF PatientInv, HostInv, HostTypes, HostNumbers, Cn!Fault, Cn!Idle
<1>1. CASE Cn!CreateInstance
  BY <1>0, <1>1, CalmRests DEF Cn!CreateInstance, CalmInv
<1>2. CASE Cn!StartInstance
  <2>1. /\ doing' = [doing EXCEPT !.pc = "create"] /\ alive /\ doing.pc = "idle"
        /\ \A p \in 1 .. MaxStarts : waiters[p] \in {"none", "tell"}
        /\ UNCHANGED <<alive, stateFile, proc, inst, exited, waiters, mishaps>>
    BY <1>2 DEF Cn!StartInstance, Cn!At, Cn!Goto, Cn!ExitNoticed, Cn!Pids
  <2>2. doing'.pc = "create"
    BY <1>0, <2>1, CallGoesOn
  <2> QED BY <1>0, <2>1, <2>2 DEF CalmInv, Starting
<1>3. CASE Cn!CrunCreate
  <2>1. CASE crun = 0
    <3>1. /\ proc' = proc \cup {launched + 1} /\ doing' = [doing EXCEPT !.pc = "pasta", !.new = launched + 1]
          /\ alive /\ doing.pc = "create" /\ UNCHANGED <<alive, stateFile, inst, exited, waiters, mishaps>>
      BY <1>3, <2>1 DEF Cn!CrunCreate, Cn!At
    <3>2. proc' = {launched + 1} /\ launched + 1 \notin exited
      BY <1>0, <2>1, <3>1 DEF HostInv, HostTypes, HostNumbers, HostSets
    <3>3. doing'.pc = "pasta"
      BY <1>0, <3>1 DEF HostTypes, HostMaps, Call
    <3>4. \A p \in 1 .. MaxStarts : waiters[p] \notin {"poll", "cleaned", "recovered"}
      BY <1>0, <3>1 DEF CalmInv
    <3> QED BY <1>0, <3>1, <3>2, <3>3, <3>4 DEF CalmInv, Starting
  <2>2. CASE crun # 0
    <3>1. /\ doing' = Cn!Idle /\ doing.pc = "create"
          /\ UNCHANGED <<alive, stateFile, proc, inst, exited, waiters, mishaps>>
      BY <1>3, <2>2 DEF Cn!CrunCreate, Cn!At
    <3> QED BY <1>0, <3>1, CalmRests DEF CalmInv, Starting
  <2> QED BY <2>1, <2>2
<1>4. CASE Cn!PastaStarts
  <2>1. /\ doing' = [doing EXCEPT !.pc = "start"] /\ alive /\ doing.pc = "pasta"
        /\ UNCHANGED <<alive, stateFile, proc, inst, exited, waiters, mishaps>>
    BY <1>4 DEF Cn!PastaStarts, Cn!At, Cn!Goto
  <2>2. doing'.pc = "start"
    BY <1>0, <2>1, CallGoesOn DEF Starting
  <2> QED BY <1>0, <2>1, <2>2 DEF CalmInv, Starting
<1>5. CASE Cn!CrunStart
  <2>1. /\ doing' = [doing EXCEPT !.pc = "register"] /\ alive /\ doing.pc = "start"
        /\ waiters' = [waiters EXCEPT ![doing.new] = "poll"]
        /\ UNCHANGED <<alive, stateFile, proc, inst, exited, mishaps>>
    BY <1>5 DEF Cn!CrunStart, Cn!At, Cn!Goto
  <2>2. doing'.pc = "register"
    BY <1>0, <2>1, CallGoesOn DEF Starting
  <2>3. proc \subseteq {doing.new}
    BY <1>0, <2>1 DEF HostInv, Starting
  <2>4. \A p \in 1 .. MaxStarts : p = doing.new \/ waiters'[p] \notin {"poll", "cleaned", "recovered"}
    BY <1>0, <2>1 DEF CalmInv, HostTypes, HostMaps
  <2>5. \A p \in 1 .. MaxStarts : p = doing.new => waiters'[p] = "poll"
    BY <1>0, <2>1 DEF HostTypes, HostMaps
  <2> QED BY <1>0, <2>1, <2>2, <2>3, <2>4, <2>5 DEF CalmInv, Starting
<1>6. CASE Cn!Register
  <2>1. /\ doing' = [doing EXCEPT !.pc = "save"] /\ alive /\ doing.pc = "register" /\ inst' = doing.new
        /\ UNCHANGED <<alive, stateFile, proc, exited, waiters, mishaps>>
    BY <1>6 DEF Cn!Register, Cn!At, Cn!Goto
  <2>2. doing'.pc = "save" /\ doing'.new = doing.new
    BY <1>0, <2>1, CallGoesOn DEF Starting
  <2>3. proc \subseteq {doing.new}
    BY <1>0, <2>1 DEF HostInv, Starting
  <2> QED BY <1>0, <2>1, <2>2, <2>3 DEF CalmInv, Starting
<1>7. CASE Cn!SaveState
  <2>1. /\ doing' = Cn!Idle /\ alive /\ doing.pc = "save" /\ stateFile' = doing.new
        /\ UNCHANGED <<alive, proc, inst, exited, waiters, mishaps>>
    BY <1>0, <1>7 DEF Cn!SaveState, Cn!At, Cn!Counted
  <2>2. proc \subseteq {doing.new}
    BY <1>0, <2>1 DEF HostInv, Starting
  <2> QED BY <1>0, <2>1, <2>2 DEF CalmInv, Starting
<1>8. ~Cn!StartFails
  BY <1>0 DEF Cn!StartFails
<1> QED BY <1>1, <1>2, <1>3, <1>4, <1>5, <1>6, <1>7, <1>8

\* A waiter that goes on finds its container dead, and no other lives.
LEMMA CalmWatchers ==
  ASSUME PatientInv, NEW p \in 1 .. MaxStarts,
         \/ Cn!ContainerExits(p) \/ Cn!PastaQuits(p) \/ Cn!WatcherCleans(p)
         \/ Cn!WatcherStores(p) \/ Cn!WatcherTells(p)
  PROVE  CalmInv'
<1>0. HostTypes /\ HostInv /\ CalmInv
  BY DEF PatientInv, HostInv
<1>1. CASE Cn!ContainerExits(p) \/ Cn!PastaQuits(p)
  <2>1. /\ proc' \subseteq proc
        /\ UNCHANGED <<alive, stateFile, doing, inst, exited, waiters, mishaps>>
    BY <1>1 DEF Cn!ContainerExits, Cn!PastaQuits
  <2>2. exited' \cap proc' = {}
    BY <1>0, <2>1 DEF CalmInv
  <2> QED BY <1>0, <2>1, <2>2, CalmRests
<1>2. CASE Cn!WatcherCleans(p)
  <2>1. /\ proc' = proc \ {crun} /\ waiters[p] = "poll" /\ waiters' = [waiters EXCEPT ![p] = "cleaned"]
        /\ UNCHANGED <<alive, stateFile, doing, inst, exited, mishaps>>
    BY <1>2 DEF Cn!WatcherCleans, Cn!Delete
  <2>2. proc' = {}
    BY <1>0, <2>1 DEF HostInv
  <2>3. waiters'[p] = "cleaned" /\ \A q \in (1 .. MaxStarts) \ {p} : waiters'[q] = waiters[q]
    BY <1>0, <2>1 DEF HostTypes, HostMaps
  <2>4. \A q \in 1 .. MaxStarts :
           \/ waiters'[q] = waiters[q]
           \/ waiters[q] = "poll" /\ waiters'[q] = "cleaned" /\ q \notin proc'
    BY <2>1, <2>2, <2>3
  <2> QED BY <1>0, <2>1, <2>2, <2>4, CalmRests
<1>3. CASE Cn!WatcherStores(p)
  <2>1. /\ waiters[p] \in {"cleaned", "recovered"} /\ alive
        /\ waiters[p] = "recovered" => p \notin proc
        /\ waiters' = [waiters EXCEPT ![p] = "tell"]
        /\ UNCHANGED <<alive, proc, doing, inst, mishaps>>
    BY <1>3 DEF Cn!WatcherStores
  <2>2. proc = {}
    BY <1>0, <2>1 DEF CalmInv
  <2>3. waiters'[p] = "tell" /\ \A q \in (1 .. MaxStarts) \ {p} : waiters'[q] = waiters[q]
    BY <1>0, <2>1 DEF HostTypes, HostMaps
  <2> QED BY <1>0, <2>1, <2>2, <2>3, CalmRests
<1>4. CASE Cn!WatcherTells(p)
  <2>1. /\ waiters[p] = "tell" /\ alive /\ waiters' = [waiters EXCEPT ![p] = "none"]
        /\ UNCHANGED <<alive, stateFile, proc, doing, inst, exited, mishaps>>
    BY <1>4 DEF Cn!WatcherTells
  <2>2. waiters'[p] = "none" /\ \A q \in (1 .. MaxStarts) \ {p} : waiters'[q] = waiters[q]
    BY <1>0, <2>1 DEF HostTypes, HostMaps
  <2>3. exited' \cap proc' = {}
    BY <1>0, <2>1 DEF CalmInv
  <2> QED BY <1>0, <2>1, <2>2, <2>3, CalmRests
<1> QED BY <1>1, <1>2, <1>3, <1>4

\* What is stopped is the one that lives, and what is removed is dead.
LEMMA CalmStopping ==
  ASSUME PatientInv,
         \/ Cn!StopInstance \/ Cn!StopTimesOut \/ Cn!StopReturns \/ Cn!StopCancelled
         \/ Cn!RemoveInstance \/ Cn!RemoveFinishes
  PROVE  CalmInv'
<1>0. HostTypes /\ HostInv /\ CalmInv /\ Cn!Idle.pc = "idle"
  BY DEF PatientInv, HostInv, Cn!Idle
<1>1. doing \in Call
  BY <1>0 DEF HostTypes, HostMaps
<1>2. CASE Cn!StopInstance \/ Cn!StopTimesOut \/ Cn!StopReturns \/ Cn!StopCancelled
  <2>1. /\ proc' \subseteq proc /\ doing.pc \in {"idle", "stop", "killed"}
        /\ \/ doing' = Cn!Idle
           \/ doing' = [doing EXCEPT !.pc = "stop", !.old = inst]
           \/ doing' = [doing EXCEPT !.pc = "killed"]
        /\ UNCHANGED <<alive, stateFile, inst, exited, waiters, mishaps>>
    BY <1>2 DEF Cn!StopInstance, Cn!StopTimesOut, Cn!StopReturns, Cn!StopCancelled, Cn!At, Cn!Goto
  <2>2. doing'.pc \in {"idle", "stop", "killed"}
    BY <1>0, <1>1, <2>1 DEF Call
  <2>3. exited' \cap proc' = {}
    BY <1>0, <2>1 DEF CalmInv
  <2> QED BY <1>0, <2>1, <2>2, <2>3, CalmRests DEF Starting
<1>3. CASE Cn!RemoveInstance
  <2>1. /\ doing.pc = "idle" /\ alive /\ inst' = 0
        /\ \/ doing' = [doing EXCEPT !.pc = "remove", !.old = inst]
           \/ doing' = [doing EXCEPT !.pc = "remove"]
        /\ proc' = proc \ {inst} \/ (proc' = proc /\ (inst = 0 \/ inst \in exited))
        /\ UNCHANGED <<alive, stateFile, exited, waiters, mishaps>>
    BY <1>3 DEF Cn!RemoveInstance, Cn!At
  <2>2. proc' = {}
    BY <1>0, <2>1 DEF CalmInv, Starting, HostTypes, HostSets
  <2>3. doing'.pc = "remove"
    BY <1>1, <2>1 DEF Call
  <2> QED BY <1>0, <2>1, <2>2, <2>3, CalmRests
<1>4. CASE Cn!RemoveFinishes
  <2>1. /\ doing.pc = "remove" /\ doing' = Cn!Idle /\ UNCHANGED <<alive, proc, inst, exited, waiters, mishaps>>
    BY <1>4 DEF Cn!RemoveFinishes, Cn!At
  <2>2. proc = {}
    BY <1>0, <2>1 DEF CalmInv
  <2> QED BY <1>0, <2>1, <2>2, CalmRests
<1> QED BY <1>2, <1>3, <1>4

\* A worker that dies between calls has what lives on disk, and finds it again.
LEMMA CalmDeaths == ASSUME PatientInv, Cn!Crash \/ Cn!Recover PROVE CalmInv'
<1>0. HostTypes /\ HostInv /\ CalmInv /\ ~Cn!Fault /\ Cn!Idle.pc = "idle" /\ Cf!Idle.pc = "idle"
  BY DEF PatientInv, HostInv, HostTypes, HostNumbers, Cn!Fault, Cn!Idle, Cf!Idle
<1>1. CASE Cn!Crash
  <2>1. /\ alive' = FALSE /\ doing = Cn!Idle /\ doing' = Cn!Idle /\ inst' = 0 /\ exited' = {}
        /\ waiters' = [p \in 1 .. MaxStarts |-> "none"]
        /\ UNCHANGED <<stateFile, proc, mishaps>>
    BY <1>1 DEF Cn!Crash, Cn!Pids
  <2> QED BY <1>0, <2>1 DEF CalmInv, Starting
<1>2. CASE Cn!Recover
  <2>0. /\ ~alive /\ alive' = TRUE /\ doing' = doing /\ doing.pc = "idle" /\ inst = 0 /\ mishaps' = mishaps
        /\ exited' = exited
    BY <1>0, <1>2 DEF Cn!Recover, HostInv
  <2>1. CASE stateFile \notin proc \/ ~manifest
    <3>1. /\ proc' \subseteq proc /\ (proc' = proc \/ proc' = proc \ {stateFile})
          /\ stateFile' = 0 /\ UNCHANGED <<inst, waiters>>
          /\ stateFile \in proc => proc' = proc \ {stateFile}
      BY <1>2, <2>1 DEF Cn!Recover
    <3>2. proc' = {}
      BY <1>0, <2>0, <3>1 DEF CalmInv, Starting
    <3> QED BY <1>0, <2>0, <3>1, <3>2 DEF CalmInv, Starting
  <2>2. CASE stateFile \in proc /\ manifest
    <3>1. /\ inst' = stateFile /\ waiters' = [waiters EXCEPT ![stateFile] = "recovered"]
          /\ UNCHANGED <<stateFile, proc>>
      BY <1>0, <1>2, <2>2 DEF Cn!Recover
    <3>2. proc \subseteq {stateFile}
      BY <1>0, <2>0 DEF CalmInv, Starting
    <3>3. \A p \in 1 .. MaxStarts : p # stateFile => waiters'[p] = "none"
      BY <1>0, <2>0, <3>1 DEF CalmInv, HostTypes, HostMaps
    <3>4. \A p \in 1 .. MaxStarts : p = stateFile => waiters'[p] = "recovered"
      BY <1>0, <3>1 DEF HostTypes, HostMaps
    <3> QED BY <1>0, <2>0, <3>1, <3>2, <3>3, <3>4 DEF CalmInv, Starting
  <2> QED BY <2>1, <2>2
<1> QED BY <1>1, <1>2

\* A patient worker's container is known whatever happens between calls.
LEMMA PatientStep == ASSUME PatientInv, [Cn!Next]_(Cn!vars) PROVE PatientInv'
<1>1. HostInv'
  BY PatientIsAllowed, HostStep DEF PatientInv
<1>2. CASE UNCHANGED Cn!vars
  BY <1>1, <1>2 DEF Cn!vars, PatientInv, CalmInv
<1>3. Cn!Pids = 1 .. MaxStarts
  BY DEF Cn!Pids
<1> QED BY <1>1, <1>2, <1>3, CalmStarting, CalmWatchers, CalmStopping, CalmDeaths DEF Cn!Next, PatientInv

\* Before the first start nothing lives.
LEMMA HostStarts ==
  /\ Cf!Init => HostInv
  /\ Cn!Init => PatientInv
<1>1. ASSUME Cf!Init PROVE HostInv
  <2>1. HostNumbers
    <3>1. alive \in BOOLEAN /\ manifest \in BOOLEAN
      BY <1>1, Zenon DEF Cf!Init
    <3> QED BY <1>1, <3>1, HostAssumption DEF Cf!Init, HostNumbers
  <2>2. HostSets
    BY <1>1 DEF Cf!Init, HostSets
  <2>3. HostMaps
    BY <1>1 DEF Cf!Init, HostMaps, Call, Cf!Idle, Cf!Pids
  <2>4. \A p \in 1 .. MaxStarts : waiters[p] = "none"
    BY <1>1 DEF Cf!Init, Cf!Pids
  <2>5. doing = Cf!Idle /\ doing.pc = "idle" /\ proc = {} /\ inst = 0
    BY <1>1 DEF Cf!Init, Cf!Idle
  <2> QED BY <2>1, <2>2, <2>3, <2>4, <2>5 DEF HostInv, HostTypes, Starting
<1>2. Cn!Init => Cf!Init
  BY DEF Cn!Init, Cf!Init, Cn!Pids, Cf!Pids, Cn!Idle, Cf!Idle
<1>3. ASSUME Cn!Init PROVE CalmInv
  <2>1. mishaps = 0 /\ doing.pc = "idle" /\ proc = {} /\ exited = {}
    BY <1>3 DEF Cn!Init, Cn!Idle
  <2>2. \A p \in 1 .. MaxStarts : waiters[p] = "none"
    BY <1>3 DEF Cn!Init, Cn!Pids
  <2> QED BY <2>1, <2>2 DEF CalmInv, Starting
<1> QED BY <1>1, <1>2, <1>3 DEF PatientInv

\* One container at most, which has its ports, and is known.
LEMMA HostPromises ==
  /\ HostInv => Cf!OneContainer /\ Cf!RunningHasPorts
  /\ PatientInv => Cn!OneContainer /\ Cn!RunningHasPorts /\ Cn!LiveIsKnown
<1>1. ASSUME HostInv PROVE Cardinality(proc) <= 1
  <2>1. proc \subseteq {crun}
    BY <1>1 DEF HostInv
  <2>2. proc = {} \/ proc = {crun}
    BY <2>1
  <2> QED BY <2>2, FS_EmptySet, FS_Singleton
<1>2. HostInv => Cf!OneContainer
  BY <1>1 DEF Cf!OneContainer, Cf!Cardinality, Cardinality
<1>3. HostInv => Cn!OneContainer
  BY <1>1 DEF Cn!OneContainer, Cn!Cardinality, Cardinality
<1>4. HostInv => Cf!RunningHasPorts /\ Cn!RunningHasPorts
  BY DEF HostInv, Ported, Cf!RunningHasPorts, Cn!RunningHasPorts
<1>5. PatientInv => Cn!LiveIsKnown
  BY DEF PatientInv, CalmInv, Cn!LiveIsKnown, Cn!Idle, Starting
<1> QED BY <1>2, <1>3, <1>4, <1>5 DEF PatientInv

-----------------------------------------------------------------------------
(* The enrolment, for any number of deaths, failing calls and moves.          *)

Certs == [ca : Nat, at : Nat, key : Nat]
Loaded == [root : Nat, cert : Certs]

\* What is signed is signed by the one authority there ever is, and so is what the
\* worker has saved, as far as it has got.
SignedInv ==
  /\ ca \in [crt : Nat, key : Nat] /\ ctlDeaths \in Nat /\ issued \in Nat /\ addr \in Nat
  /\ ctl \in {"down", "key", "cert", "srvkey", "up", "broken"}
  /\ ctl \in {"key", "cert", "srvkey", "up"} => ca.crt # 0
  /\ worker \in [pc : {"down", "load", "enroll", "saveCA", "saveCert", "saveKey", "id", "register",
                       "heartbeat", "beating", "insecure"},
                 tls : Loaded, id : {"none", "id"}]
  /\ files \in [root : Nat, cert : Certs, key : Nat]
  /\ granted \in [root : Nat, cert : Certs, key : Nat]
  /\ files.root \in {0, ca.crt}
  /\ files.cert = Ea!NoCert \/ (files.cert.ca = ca.crt /\ ca.crt # 0)
  /\ worker.pc \in {"saveCA", "saveCert", "saveKey"} =>
       granted.root = ca.crt /\ granted.cert.ca = ca.crt /\ ca.crt # 0
  /\ worker.pc \in {"saveCert", "saveKey"} => files.root = ca.crt
  /\ worker.pc = "saveKey" => files.cert.ca = ca.crt
  /\ worker.tls # Ea!NoTLS => worker.tls.root = worker.tls.cert.ca
  /\ live \subseteq DOMAIN enrolled

\* What either instance of the enrolment does, deaths and failures not counted.
EnrolMoves ==
  \/ Ea!Controller
  \/ Ea!Worker
  \/ Ea!SaveFails
  \/ /\ UNCHANGED <<ca, issued, enrolled, files, granted>>
     /\ \/ ctl' = ctl /\ live' = live /\ ctlDeaths' = ctlDeaths
        \/ ctl' = "down" /\ live' = {} /\ ctlDeaths' = ctlDeaths + 1
     /\ worker' \in {worker, Ea!Down, [worker EXCEPT !.pc = "register"]}
     /\ addr' \in {addr, addr + 1}

\* Both instances move like that.
LEMMA EnrolMovesAre ==
  /\ [Ea!Next]_(Ea!vars) => EnrolMoves
  /\ [En!Next]_(En!vars) => EnrolMoves
<1>1. [Ea!Next]_(Ea!vars) => EnrolMoves
  <2>1. ASSUME Ea!CallFails PROVE EnrolMoves
    BY <2>1 DEF Ea!CallFails, Ea!To, Ea!controller, EnrolMoves
  <2>2. ASSUME Ea!ControllerDies PROVE EnrolMoves
    BY <2>2 DEF Ea!ControllerDies, Ea!node, EnrolMoves
  <2>3. ASSUME Ea!WorkerDies PROVE EnrolMoves
    BY <2>3 DEF Ea!WorkerDies, Ea!controller, EnrolMoves
  <2>4. ASSUME Ea!Move PROVE EnrolMoves
    BY <2>4 DEF Ea!Move, Ea!controller, Ea!node, EnrolMoves
  <2>5. ASSUME UNCHANGED Ea!vars PROVE EnrolMoves
    BY <2>5 DEF Ea!vars, EnrolMoves
  <2> QED BY <2>1, <2>2, <2>3, <2>4, <2>5 DEF Ea!Next, EnrolMoves
<1>2. [En!Next]_(En!vars) => EnrolMoves
  <2>1. ASSUME En!CallFails PROVE EnrolMoves
    BY <2>1 DEF En!CallFails, En!To, En!controller, EnrolMoves
  <2>2. ASSUME En!ControllerDies PROVE EnrolMoves
    BY <2>2 DEF En!ControllerDies, En!node, EnrolMoves
  <2>3. ASSUME En!WorkerDies PROVE EnrolMoves
    BY <2>3 DEF En!WorkerDies, En!controller, En!Down, En!NoTLS, En!NoCert, Ea!Down, Ea!NoTLS,
                Ea!NoCert, EnrolMoves
  <2>4. ASSUME En!Move PROVE EnrolMoves
    BY <2>4 DEF En!Move, En!controller, En!node, EnrolMoves
  <2>5. ASSUME UNCHANGED En!vars PROVE EnrolMoves
    BY <2>5 DEF En!vars, EnrolMoves
  <2>6. En!Controller => Ea!Controller
    BY DEF En!Controller, En!LoadOrCreateCA, En!WriteCAKey, En!LoadOrCreateServerCert, En!WriteServerKey,
           En!node, En!counts, Ea!Controller, Ea!LoadOrCreateCA, Ea!WriteCAKey,
           Ea!LoadOrCreateServerCert, Ea!WriteServerKey, Ea!node, Ea!counts
  <2>7. En!Worker => Ea!Worker
    <3>1. /\ En!StartWorker => Ea!StartWorker
          /\ En!LoadWorkerTLS => Ea!LoadWorkerTLS
      BY DEF En!StartWorker, En!LoadWorkerTLS, En!Loads, En!Down, En!NoTLS, En!NoCert, En!controller,
             En!counts, Ea!StartWorker, Ea!LoadWorkerTLS, Ea!Loads, Ea!Down, Ea!NoTLS, Ea!NoCert,
             Ea!controller, Ea!counts
    <3>2. En!Enroll => Ea!Enroll
      BY DEF En!Enroll, En!To, En!Issue, En!Row, En!OwnAddress, En!counts, Ea!Enroll, Ea!To, Ea!Issue,
             Ea!Row, Ea!OwnAddress, Ea!counts
    <3>3. /\ En!SaveCA => Ea!SaveCA
          /\ En!SaveCert => Ea!SaveCert
          /\ En!SaveKey => Ea!SaveKey
          /\ En!LoadId => Ea!LoadId
      BY DEF En!SaveCA, En!SaveCert, En!SaveKey, En!LoadId, En!To, En!controller, En!counts, Ea!SaveCA,
             Ea!SaveCert, Ea!SaveKey, Ea!LoadId, Ea!To, Ea!controller, Ea!counts
    <3>4. /\ En!Register => Ea!Register
          /\ En!Heartbeat => Ea!Heartbeat
          /\ En!NextBeat => Ea!NextBeat
      BY DEF En!Register, En!Heartbeat, En!NextBeat, En!To, En!Trusts, En!Accepted, En!Row, En!OwnAddress,
             En!controller, En!counts, Ea!Register, Ea!Heartbeat, Ea!NextBeat, Ea!To, Ea!Trusts,
             Ea!Accepted, Ea!Row, Ea!OwnAddress, Ea!controller, Ea!counts
    <3> QED BY <3>1, <3>2, <3>3, <3>4 DEF En!Worker, Ea!Worker
  <2>8. En!SaveFails => Ea!SaveFails
    BY DEF En!SaveFails, En!NoTLS, En!NoCert, En!controller, Ea!SaveFails, Ea!NoTLS, Ea!NoCert,
           Ea!controller
  <2> QED BY <2>1, <2>2, <2>3, <2>4, <2>5, <2>6, <2>7, <2>8 DEF En!Next, EnrolMoves
<1> QED BY <1>1, <1>2

\* The authority is made once, while there is nothing signed yet.
LEMMA AuthorityKeeps == ASSUME SignedInv, Ea!Controller PROVE SignedInv'
<1>1. /\ UNCHANGED <<issued, enrolled, live, worker, files, granted, addr, ctlDeaths>>
      /\ ca' \in [crt : Nat, key : Nat]
      /\ ctl' \in {"key", "cert", "srvkey", "up", "broken"}
      /\ ctl' # "broken" => ca'.crt # 0
      /\ ca'.crt = ca.crt \/ ca.crt = 0
  <2>1. CASE Ea!LoadOrCreateCA
    BY <2>1 DEF Ea!LoadOrCreateCA, Ea!node, Ea!counts, SignedInv
  <2>2. CASE Ea!WriteCAKey
    BY <2>2 DEF Ea!WriteCAKey, Ea!node, Ea!counts, SignedInv
  <2>3. CASE Ea!LoadOrCreateServerCert \/ Ea!WriteServerKey
    BY <2>3 DEF Ea!LoadOrCreateServerCert, Ea!WriteServerKey, Ea!node, Ea!counts, SignedInv
  <2> QED BY <2>1, <2>2, <2>3 DEF Ea!Controller
<1> QED BY <1>1 DEF SignedInv

\* A worker that goes on, with nothing else changed but the addresses.
LEMMA WorkerMoves ==
  ASSUME SignedInv, UNCHANGED <<ctl, ca, ctlDeaths, issued, addr, files, granted>>,
         worker' \in [pc : {"down", "load", "enroll", "id", "register", "heartbeat", "beating"},
                      tls : Loaded, id : {"none", "id"}],
         worker'.tls # Ea!NoTLS => worker'.tls.root = worker'.tls.cert.ca,
         live' \subseteq DOMAIN enrolled'
  PROVE  SignedInv'
BY DEF SignedInv

\* What the worker loads, is issued and saves is of that authority.
LEMMA WorkerSigns == ASSUME SignedInv, Ea!Worker PROVE SignedInv'
<1> DEFINE Pcs == {"down", "load", "enroll", "saveCA", "saveCert", "saveKey", "id", "register",
                   "heartbeat", "beating", "insecure"}
<1>1. worker \in [pc : Pcs, tls : Loaded, id : {"none", "id"}]
  BY DEF SignedInv
<1>2. CASE Ea!StartWorker
  <2>1. worker' = [pc |-> "load", tls |-> Ea!NoTLS, id |-> "none"]
    BY <1>2 DEF Ea!StartWorker, Ea!Down
  <2>2. Ea!NoTLS \in Loaded
    BY DEF Ea!NoTLS, Ea!NoCert, Loaded, Certs
  <2>3. UNCHANGED <<ctl, ca, ctlDeaths, issued, addr, files, granted, live, enrolled>>
    BY <1>2 DEF Ea!StartWorker, Ea!controller, Ea!counts
  <2> QED BY <2>1, <2>2, <2>3, WorkerMoves DEF SignedInv
<1>3. CASE Ea!LoadWorkerTLS
  <2>1. UNCHANGED <<ctl, ca, ctlDeaths, issued, addr, files, granted, live, enrolled>>
    BY <1>3 DEF Ea!LoadWorkerTLS, Ea!controller, Ea!counts
  <2>2. CASE Ea!Loads(files)
    <3>1. worker' = [worker EXCEPT !.pc = "id", !.tls = [root |-> files.root, cert |-> files.cert]]
      BY <1>3, <2>2 DEF Ea!LoadWorkerTLS
    <3>2. /\ worker' \in [pc : {"id"}, tls : Loaded, id : {"none", "id"}]
          /\ worker'.tls.root = files.root /\ worker'.tls.cert = files.cert
      BY <1>1, <3>1 DEF SignedInv, Loaded
    <3>3. files.root = files.cert.ca
      BY <2>2 DEF Ea!Loads, SignedInv
    <3> QED BY <2>1, <3>2, <3>3, WorkerMoves DEF SignedInv
  <2>3. CASE ~Ea!Loads(files)
    <3>1. worker' = [worker EXCEPT !.pc = "enroll"]
      BY <1>3, <2>3 DEF Ea!LoadWorkerTLS
    <3>2. worker' \in [pc : {"enroll"}, tls : Loaded, id : {"none", "id"}] /\ worker'.tls = worker.tls
      BY <1>1, <3>1
    <3> QED BY <2>1, <3>2, WorkerMoves DEF SignedInv
  <2> QED BY <2>2, <2>3
<1>4. CASE Ea!Enroll
  <2>1. /\ worker' = [worker EXCEPT !.pc = "saveCA"] /\ issued' = issued + 1 /\ ctl = "up"
        /\ granted' = [root |-> ca.crt, cert |-> [ca |-> ca.crt, at |-> addr, key |-> issued + 1],
                       key |-> issued + 1]
        /\ DOMAIN enrolled' = DOMAIN enrolled \cup {"host"}
        /\ UNCHANGED <<ctl, ca, ctlDeaths, addr, files, live>>
    BY <1>4 DEF Ea!Enroll, Ea!To, Ea!Issue, Ea!OwnAddress, Ea!Row, Ea!counts
  <2>2. /\ worker' \in [pc : {"saveCA"}, tls : Loaded, id : {"none", "id"}] /\ worker'.tls = worker.tls
    BY <1>1, <2>1
  <2>3. /\ granted' \in [root : Nat, cert : Certs, key : Nat]
        /\ granted'.root = ca.crt /\ granted'.cert.ca = ca.crt
    BY <2>1 DEF SignedInv, Certs
  <2> QED BY <2>1, <2>2, <2>3 DEF SignedInv
<1>5. CASE Ea!SaveCA
  <2>1. /\ worker' = [worker EXCEPT !.pc = "saveCert"] /\ files' = [files EXCEPT !.root = granted.root]
        /\ granted.root = ca.crt /\ granted.cert.ca = ca.crt /\ ca.crt # 0
        /\ UNCHANGED <<ctl, ca, ctlDeaths, issued, addr, granted, live, enrolled>>
    BY <1>5 DEF Ea!SaveCA, Ea!To, Ea!controller, Ea!counts, SignedInv
  <2>2. worker' \in [pc : {"saveCert"}, tls : Loaded, id : {"none", "id"}] /\ worker'.tls = worker.tls
    BY <1>1, <2>1
  <2>3. /\ files' \in [root : Nat, cert : Certs, key : Nat]
        /\ files'.root = ca.crt /\ files'.cert = files.cert
    BY <2>1 DEF SignedInv
  <2> QED BY <2>1, <2>2, <2>3 DEF SignedInv
<1>6. CASE Ea!SaveCert
  <2>1. /\ worker' = [worker EXCEPT !.pc = "saveKey"] /\ files' = [files EXCEPT !.cert = granted.cert]
        /\ granted.root = ca.crt /\ granted.cert.ca = ca.crt /\ ca.crt # 0 /\ files.root = ca.crt
        /\ UNCHANGED <<ctl, ca, ctlDeaths, issued, addr, granted, live, enrolled>>
    BY <1>6 DEF Ea!SaveCert, Ea!To, Ea!controller, Ea!counts, SignedInv
  <2>2. worker' \in [pc : {"saveKey"}, tls : Loaded, id : {"none", "id"}] /\ worker'.tls = worker.tls
    BY <1>1, <2>1
  <2>3. /\ files' \in [root : Nat, cert : Certs, key : Nat]
        /\ files'.root = ca.crt /\ files'.cert = granted.cert
    BY <2>1 DEF SignedInv
  <2> QED BY <2>1, <2>2, <2>3 DEF SignedInv
<1>7. CASE Ea!SaveKey
  <2>1. /\ worker' = [worker EXCEPT !.pc = "id", !.tls = [root |-> files.root, cert |-> files.cert]]
        /\ files' = [files EXCEPT !.key = granted.key]
        /\ files.root = ca.crt /\ files.cert.ca = ca.crt
        /\ UNCHANGED <<ctl, ca, ctlDeaths, issued, addr, granted, live, enrolled>>
    BY <1>7 DEF Ea!SaveKey, Ea!controller, Ea!counts, SignedInv
  <2>2. /\ worker' \in [pc : {"id"}, tls : Loaded, id : {"none", "id"}]
        /\ worker'.tls.root = files.root /\ worker'.tls.cert = files.cert
    BY <1>1, <2>1 DEF SignedInv, Loaded
  <2>3. /\ files' \in [root : Nat, cert : Certs, key : Nat]
        /\ files'.root = files.root /\ files'.cert = files.cert
    BY <2>1 DEF SignedInv
  <2> QED BY <2>1, <2>2, <2>3 DEF SignedInv
<1>8. CASE Ea!LoadId \/ Ea!Register \/ Ea!Heartbeat \/ Ea!NextBeat
  <2>1. /\ \/ worker' = [worker EXCEPT !.pc = "register", !.id = "id"]
           \/ \E pc \in {"heartbeat", "beating"} : worker' = [worker EXCEPT !.pc = pc]
        /\ UNCHANGED <<ctl, ca, ctlDeaths, issued, addr, files, granted>>
    BY <1>8 DEF Ea!LoadId, Ea!Register, Ea!Heartbeat, Ea!NextBeat, Ea!To, Ea!controller, Ea!counts
  <2>2. live' \subseteq DOMAIN enrolled'
    BY <1>8 DEF Ea!LoadId, Ea!Register, Ea!Heartbeat, Ea!NextBeat, Ea!Accepted, Ea!Row, Ea!controller, SignedInv
  <2>3. /\ worker' \in [pc : {"register", "heartbeat", "beating"}, tls : Loaded, id : {"none", "id"}]
        /\ worker'.tls = worker.tls
    BY <1>1, <2>1
  <2> QED BY <2>1, <2>2, <2>3, WorkerMoves DEF SignedInv
<1> QED BY <1>2, <1>3, <1>4, <1>5, <1>6, <1>7, <1>8 DEF Ea!Worker

\* A file that is not saved, or spoilt, is of no other authority.
LEMMA SaveFailsKeeps == ASSUME SignedInv, Ea!SaveFails PROVE SignedInv'
<1>1. /\ worker' = [pc |-> "insecure", tls |-> Ea!NoTLS, id |-> "id"]
      /\ UNCHANGED <<ctl, ca, ctlDeaths, issued, addr, granted, live, enrolled>>
  BY DEF Ea!SaveFails, Ea!controller
<1>2. Ea!NoTLS \in Loaded /\ Ea!NoCert \in Certs
  BY DEF Ea!NoTLS, Ea!NoCert, Loaded, Certs
<1>3. /\ files' \in [root : Nat, cert : Certs, key : Nat]
      /\ files'.root \in {files.root, 0} /\ files'.cert \in {files.cert, Ea!NoCert}
  BY <1>2 DEF Ea!SaveFails, SignedInv
<1> QED BY <1>1, <1>2, <1>3 DEF SignedInv

\* Wherever the worker or the controller dies.
LEMMA SignedStep == ASSUME SignedInv, EnrolMoves PROVE SignedInv'
<1>1. CASE /\ UNCHANGED <<ca, issued, enrolled, files, granted>>
           /\ \/ ctl' = ctl /\ live' = live /\ ctlDeaths' = ctlDeaths
              \/ ctl' = "down" /\ live' = {} /\ ctlDeaths' = ctlDeaths + 1
           /\ worker' \in {worker, Ea!Down, [worker EXCEPT !.pc = "register"]}
           /\ addr' \in {addr, addr + 1}
  <2>1. /\ Ea!Down \in [pc : {"down"}, tls : Loaded, id : {"none", "id"}]
        /\ Ea!Down.tls = Ea!NoTLS
    BY DEF Ea!Down, Ea!NoTLS, Ea!NoCert, Loaded, Certs
  <2>2. CASE worker' = worker
    BY <1>1, <2>2 DEF SignedInv
  <2>3. CASE worker' = Ea!Down
    BY <1>1, <2>1, <2>3 DEF SignedInv
  <2>4. CASE worker' = [worker EXCEPT !.pc = "register"]
    <3>1. /\ worker' \in [pc : {"register"}, tls : Loaded, id : {"none", "id"}]
          /\ worker'.tls = worker.tls
      BY <2>4 DEF SignedInv
    <3> QED BY <1>1, <3>1 DEF SignedInv
  <2> QED BY <1>1, <2>2, <2>3, <2>4
<1> QED BY <1>1, AuthorityKeeps, WorkerSigns, SaveFailsKeeps DEF EnrolMoves

\* Before the first start nothing is signed.
LEMMA SignedStarts ==
  /\ Ea!Init => SignedInv
  /\ En!Init => SignedInv
BY DEF Ea!Init, En!Init, SignedInv, Certs, Loaded, Ea!Down, Ea!NoTLS, Ea!NoCert, Ea!NoFiles,
       En!Down, En!NoTLS, En!NoCert, En!NoFiles

\* Each kind of what a worker does keeps its own invariant.
WorkerPart ==
  /\ part = "link" => LinkInv
  /\ part = "container" => PatientInv
  /\ part = "containers" => HostInv
  /\ part \in {"enroll", "authority"} => SignedInv

\* Whatever fails, breaks off or is given up, and wherever the worker or the
\* controller dies: a call that returns without an error was executed and its stream
\* is whole, two containers of an instance never live together, one that runs has its
\* ports, one that lives is known, and a worker only uses a certificate of the
\* authority it trusts.
THEOREM WorkersKeepTheirWord == Spec => []WorkerDoesAsTold
<1>1. Init => WorkerPart
  BY LinkStarts, HostStarts, SignedStarts DEF Init, WorkerPart
<1>2. WorkerPart /\ [Next]_vars => WorkerPart'
  <2> SUFFICES ASSUME WorkerPart, [Next]_vars PROVE WorkerPart'
    OBVIOUS
  <2>1. part' = part
    BY StepsOfParts
  <2>2. ASSUME part = "link" PROVE LinkInv'
    BY <2>2, StepsOfParts, LinkStep DEF WorkerPart
  <2>3. ASSUME part = "container" PROVE PatientInv'
    BY <2>3, StepsOfParts, PatientStep DEF WorkerPart
  <2>4. ASSUME part = "containers" PROVE HostInv'
    BY <2>4, StepsOfParts, HostStep DEF WorkerPart
  <2>5. ASSUME part \in {"enroll", "authority"} PROVE SignedInv'
    <3>1. EnrolMoves
      BY <2>5, StepsOfParts, EnrolMovesAre DEF WorkerPart
    <3> QED BY <2>5, <3>1, SignedStep DEF WorkerPart
  <2> QED BY <2>1, <2>2, <2>3, <2>4, <2>5 DEF WorkerPart
<1>3. WorkerPart => WorkerDoesAsTold
  <2>1. SignedInv => En!TlsIsConsistent /\ Ea!TlsIsConsistent
    BY DEF SignedInv, En!TlsIsConsistent, Ea!TlsIsConsistent, En!NoTLS, Ea!NoTLS, En!NoCert, Ea!NoCert
  <2>2. LinkInv => Lk!OkMeansDone
    BY DEF LinkInv
  <2> QED BY <2>1, <2>2, HostPromises DEF WorkerPart, WorkerDoesAsTold
<1> QED BY <1>1, <1>2, <1>3, PTL DEF Spec

-----------------------------------------------------------------------------
(* Statistics, for any number of loops, ticks and failures.                  *)

\* Every loop that is at work can be stopped; the samples taken are numbered
\* without a gap and each is in one place; and the last warning event told the
\* level in force.
StatInv ==
  /\ usage \in Sizes
  /\ Tl!TypeOK
  /\ Tl!OneLoop
  /\ \E k \in Nat : buf \cup writing \cup written \cup lost = 1 .. k
  /\ Tl!SampleOnce
  /\ Tl!EventsTellLevel

\* A loop that moves on, and the samples, warnings and registration do not.
LEMMA LoopMoves ==
  ASSUME StatInv, NEW l \in PollLoops, NEW r \in [pc : {"poll", "cache", "buffer", "wait", "ended"}, size : Sizes \cup {0}],
         poll' = [poll EXCEPT ![l] = r], ~Tl!At(l, "none"), ~Tl!At(l, "ended"),
         UNCHANGED <<pollers, stopped>>
  PROVE  /\ Tl!OneLoop'
         /\ poll' \in [PollLoops -> [pc : {"none", "poll", "cache", "buffer", "wait", "ended"},
                                     size : Sizes \cup {0}]]
<1>1. /\ poll' \in [PollLoops -> [pc : {"none", "poll", "cache", "buffer", "wait", "ended"},
                                  size : Sizes \cup {0}]]
      /\ \A k \in PollLoops \ {l} : poll'[k] = poll[k]
  BY DEF StatInv, Tl!TypeOK
<1> QED BY <1>1 DEF StatInv, Tl!OneLoop, Tl!At

\* What a loop does next.
LEMMA LoopRecord ==
  ASSUME StatInv, NEW l \in PollLoops, NEW pc \in {"poll", "cache", "buffer", "wait", "ended"}
  PROVE  [poll[l] EXCEPT !.pc = pc] \in [pc : {"poll", "cache", "buffer", "wait", "ended"}, size : Sizes \cup {0}]
<1>1. poll[l] \in [pc : {"none", "poll", "cache", "buffer", "wait", "ended"}, size : Sizes \cup {0}]
  BY DEF StatInv, Tl!TypeOK
<1> QED BY <1>1

\* A new loop is registered, and the one before it is cancelled.
LEMMA StartKeeps == ASSUME StatInv, NEW l \in PollLoops, Tl!StartPolling(l) PROVE StatInv'
<1>1. /\ poll' = [poll EXCEPT ![l] = [poll[l] EXCEPT !.pc = "poll"]]
      /\ pollers' = l /\ stopped' = stopped \cup ({pollers} \ {0}) /\ sample' = 0
      /\ UNCHANGED <<usage, active, emitted, buf, writing, written, lost>>
  BY DEF Tl!StartPolling, Tl!stats
<1>2. [poll[l] EXCEPT !.pc = "poll"] \in [pc : {"poll", "cache", "buffer", "wait", "ended"}, size : Sizes \cup {0}]
  BY LoopRecord
<1>3. /\ poll' \in [PollLoops -> [pc : {"none", "poll", "cache", "buffer", "wait", "ended"},
                                  size : Sizes \cup {0}]]
      /\ \A k \in PollLoops \ {l} : poll'[k] = poll[k]
  BY <1>1, <1>2 DEF StatInv, Tl!TypeOK
<1>4. Tl!OneLoop'
  BY <1>1, <1>3, LoopAssumption DEF StatInv, Tl!OneLoop, Tl!At
<1>5. Tl!TypeOK'
  BY <1>1, <1>3 DEF StatInv, Tl!TypeOK
<1> QED BY <1>1, <1>4, <1>5 DEF StatInv, Tl!SampleOnce, Tl!EventsTellLevel

\* The registered loop is cancelled.
LEMMA StopKeeps == ASSUME StatInv, Tl!StopPolling \/ Tl!StopAll PROVE StatInv'
<1>1. /\ pollers' = 0 /\ stopped' = stopped \cup ({pollers} \ {0}) /\ sample' = 0
      /\ UNCHANGED <<poll, usage, active, emitted, buf, writing, written, lost>>
  BY DEF Tl!StopPolling, Tl!StopAll, Tl!stats
<1>2. Tl!OneLoop' /\ Tl!TypeOK'
  BY <1>1, LoopAssumption DEF StatInv, Tl!OneLoop, Tl!At, Tl!TypeOK
<1> QED BY <1>1, <1>2 DEF StatInv, Tl!SampleOnce, Tl!EventsTellLevel

\* A poll, its result and its sample.
LEMMA PollKeeps == ASSUME StatInv, NEW l \in PollLoops, Tl!LoopStep(l) PROVE StatInv'
<1> DEFINE Records == [pc : {"poll", "cache", "buffer", "wait", "ended"}, size : Sizes \cup {0}]
<1>1. \A pc \in {"poll", "cache", "buffer", "wait", "ended"} : [poll[l] EXCEPT !.pc = pc] \in Records
  BY LoopRecord
<1>2. usage \in Sizes
  BY DEF StatInv
<1>3. /\ \E r \in Records : poll' = [poll EXCEPT ![l] = r]
      /\ ~Tl!At(l, "none") /\ ~Tl!At(l, "ended")
      /\ UNCHANGED <<pollers, stopped, usage, active, emitted, writing, written, lost>>
      /\ sample' \in {sample, l}
  <2>1. CASE Tl!Read(l)
    BY <1>1, <1>2, <2>1 DEF Tl!Read, Tl!At, Tl!stats
  <2>2. CASE Tl!Publish(l)
    BY <1>1, <1>2, <2>2 DEF Tl!Publish, Tl!At, Tl!stats
  <2>3. CASE Tl!Buffer(l)
    BY <1>1, <1>2, <2>3 DEF Tl!Buffer, Tl!At, Tl!stats
  <2>4. CASE Tl!Wait(l)
    BY <1>1, <1>2, <2>4 DEF Tl!Wait, Tl!At, Tl!stats
  <2> QED BY <2>1, <2>2, <2>3, <2>4 DEF Tl!LoopStep
<1>4. /\ Tl!OneLoop'
      /\ poll' \in [PollLoops -> [pc : {"none", "poll", "cache", "buffer", "wait", "ended"},
                                  size : Sizes \cup {0}]]
  BY <1>3, LoopMoves
<1>5. Tl!TypeOK'
  BY <1>3, <1>4 DEF StatInv, Tl!TypeOK
<1>6. Tl!EventsTellLevel' /\ usage' \in Sizes
  BY <1>2, <1>3 DEF StatInv, Tl!EventsTellLevel
<1>7. CASE UNCHANGED buf
  <2>1. /\ \E k \in Nat : buf' \cup writing' \cup written' \cup lost' = 1 .. k
        /\ Tl!SampleOnce'
    BY <1>3, <1>7 DEF StatInv, Tl!SampleOnce
  <2> QED BY <1>4, <1>5, <1>6, <2>1 DEF StatInv
<1>8. CASE Tl!Buffer(l)
  <2>1. PICK k \in Nat : buf \cup writing \cup written \cup lost = 1 .. k
    BY DEF StatInv
  <2>2. Tl!Cardinality(1 .. k) = k
    <3>1. Tl!Cardinality(1 .. k) = Cardinality(1 .. k)
      BY DEF Tl!Cardinality, Cardinality
    <3> QED BY <3>1, FS_Interval
  <2>3. buf' = buf \cup {k + 1}
    BY <1>8, <2>1, <2>2 DEF Tl!Buffer
  <2>4. k + 1 \in Nat /\ k + 1 \notin 1 .. k /\ (1 .. k) \cup {k + 1} = 1 .. (k + 1)
    OBVIOUS
  <2>5. buf' \cup writing' \cup written' \cup lost' = 1 .. (k + 1)
    BY <1>3, <2>1, <2>3, <2>4
  <2>6. Tl!SampleOnce'
    BY <1>3, <2>1, <2>3, <2>4 DEF StatInv, Tl!SampleOnce
  <2> QED BY <1>4, <1>5, <1>6, <2>4, <2>5, <2>6 DEF StatInv
<1>9. Tl!Buffer(l) \/ UNCHANGED buf
  BY DEF Tl!LoopStep, Tl!Read, Tl!Publish, Tl!Wait, Tl!stats
<1> QED BY <1>7, <1>8, <1>9

\* The flusher moves samples, and the subscriber tells a change of level.
LEMMA StatStep == ASSUME StatInv, [Tl!Next]_(Tl!vars) PROVE StatInv'
<1>1. CASE Tl!TakeBatch \/ Tl!InsertBatch
  <2>1. /\ UNCHANGED <<poll, pollers, stopped, sample, usage, active, emitted>>
        /\ buf' \cup writing' \cup written' \cup lost' = buf \cup writing \cup written \cup lost
        /\ Tl!SampleOnce'
    BY <1>1 DEF Tl!TakeBatch, Tl!InsertBatch, StatInv, Tl!SampleOnce
  <2> QED BY <2>1 DEF StatInv, Tl!TypeOK, Tl!OneLoop, Tl!At, Tl!EventsTellLevel
<1>2. CASE Tl!checkStorage
  <2>1. UNCHANGED <<poll, pollers, stopped, sample, usage, buf, writing, written, lost>>
    BY <1>2 DEF Tl!checkStorage, Tl!stats
  <2>2. /\ active' \in {"", "warning", "critical"}
        /\ emitted' \in {"none", "resolved", "warning", "critical"}
        /\ Tl!EventsTellLevel'
    BY <1>2 DEF Tl!checkStorage, Tl!Level, StatInv, Tl!TypeOK, Tl!EventsTellLevel
  <2> QED BY <2>1, <2>2 DEF StatInv, Tl!TypeOK, Tl!OneLoop, Tl!At, Tl!SampleOnce
<1>3. CASE Tl!Grow \/ UNCHANGED Tl!vars
  <2>1. /\ UNCHANGED <<poll, pollers, stopped, sample, active, emitted, buf, writing, written, lost>>
        /\ usage' \in Sizes
    BY <1>3 DEF Tl!Grow, Tl!stats, Tl!vars, StatInv
  <2> QED BY <2>1 DEF StatInv, Tl!TypeOK, Tl!OneLoop, Tl!At, Tl!SampleOnce, Tl!EventsTellLevel
<1> QED BY <1>1, <1>2, <1>3, StartKeeps, StopKeeps, PollKeeps DEF Tl!Next

\* Before the first loop there is nothing to stop and no sample.
LEMMA StatStarts == ASSUME Tl!Init PROVE StatInv
<1>1. buf \cup writing \cup written \cup lost = 1 .. 0
  <2>1. {} = 1 .. 0
    OBVIOUS
  <2> QED BY <2>1 DEF Tl!Init
<1> QED BY <1>1 DEF Tl!Init, Tl!Idle, StatInv, Tl!TypeOK, Tl!OneLoop, Tl!At, Tl!SampleOnce,
                    Tl!EventsTellLevel

-----------------------------------------------------------------------------
(* Player queries, for any number of loops, players and ticks.  Loops that   *)
(* overlap and loops that do not are two instances; the first proof is about *)
(* what both do.                                                             *)

QueryPcs == {"none", "load", "query", "store", "publish", "wait", "ended"}
Answers  == Players \cup {Qo!None}

\* Every loop that is at work can be stopped.
AskInv(Loops) ==
  /\ asking \in [Loops -> [pc : QueryPcs, players : Answers]]
  /\ online \in Players
  /\ \A l \in Loops : asking[l].pc = "none" \/ asking[l].pc = "ended" \/ l \in quit \/ l = asker

\* No two loops are at work, and the one that is has told what is cached or is
\* about to.
TellInv ==
  /\ AskInv(QueryLoops)
  /\ \A j, k \in QueryLoops : Qu!Over(j) /\ Qu!Over(k) => j = k
  /\ \A l \in QueryLoops : Qu!At(l, "publish") => players \in {Qu!None, asking[l].players}
  /\ Qu!PlayersAreTold

\* A loop that goes on, while what can be stopped stays.
LEMMA AskerMoves ==
  ASSUME NEW Loops, AskInv(Loops), NEW l \in Loops,
         NEW r \in [pc : QueryPcs \ {"none"}, players : Answers],
         asking' = [asking EXCEPT ![l] = r],
         asking[l].pc \notin {"none", "ended"} \/ asker' = l,
         (asker' = asker /\ quit' = quit) \/ (asker' = l /\ quit' = quit \cup ({asker} \ {0})),
         0 \notin Loops, UNCHANGED online
  PROVE  AskInv(Loops)'
<1>1. /\ asking' \in [Loops -> [pc : QueryPcs, players : Answers]]
      /\ \A k \in Loops \ {l} : asking'[k] = asking[k]
  BY DEF AskInv
<1> QED BY <1>1 DEF AskInv

\* The registered loop is cancelled, or nothing happens to the loops.
LEMMA AskerStops ==
  ASSUME NEW Loops, AskInv(Loops), UNCHANGED asking, online' \in Players, 0 \notin Loops,
         (asker' = asker /\ quit' = quit) \/ (asker' = 0 /\ quit' = quit \cup ({asker} \ {0}))
  PROVE  AskInv(Loops)'
BY DEF AskInv

\* What a loop does next.
LEMMA AskerRecord ==
  ASSUME NEW Loops, AskInv(Loops), NEW l \in Loops, NEW pc \in QueryPcs \ {"none"}
  PROVE  [asking[l] EXCEPT !.pc = pc] \in [pc : QueryPcs \ {"none"}, players : Answers]
<1>1. asking[l] \in [pc : QueryPcs, players : Answers]
  BY DEF AskInv
<1> QED BY <1>1

\* Loops that may overlap: every one at work can be stopped.
LEMMA OverlapStep == ASSUME AskInv(OverlapLoops), [Qo!Next]_(Qo!vars) PROVE AskInv(OverlapLoops)'
<1> DEFINE Records == [pc : QueryPcs \ {"none"}, players : Answers]
<1>1. 0 \notin OverlapLoops /\ online \in Players
  BY LoopAssumption DEF AskInv
<1>2. ASSUME NEW l \in OverlapLoops, Qo!StartPolling(l) PROVE AskInv(OverlapLoops)'
  <2>1. [asking[l] EXCEPT !.pc = "load"] \in Records
    BY AskerRecord DEF QueryPcs
  <2>2. /\ asking' = [asking EXCEPT ![l] = [asking[l] EXCEPT !.pc = "load"]]
        /\ asker' = l /\ quit' = quit \cup ({asker} \ {0}) /\ UNCHANGED online
    BY <1>2 DEF Qo!StartPolling, Qo!Goto, Qo!world
  <2> QED BY <1>1, <2>1, <2>2, AskerMoves
<1>3. ASSUME NEW l \in OverlapLoops, Qo!Step(l) PROVE AskInv(OverlapLoops)'
  <2>1. \A pc \in QueryPcs \ {"none"} : [asking[l] EXCEPT !.pc = pc] \in Records
    BY AskerRecord
  <2>2. [pc |-> "store", players |-> online] \in Records
    BY <1>1 DEF QueryPcs, Answers
  <2>3. PICK r \in Records : asking' = [asking EXCEPT ![l] = r]
    BY <1>3, <2>1, <2>2 DEF Qo!Step, Qo!Load, Qo!Query, Qo!Store, Qo!Publish, Qo!Wait, Qo!Goto, QueryPcs
  <2>4. asking[l].pc \notin {"none", "ended"} /\ UNCHANGED <<asker, quit, online>>
    BY <1>3 DEF Qo!Step, Qo!Load, Qo!Query, Qo!Store, Qo!Publish, Qo!Wait, Qo!At, Qo!world
  <2> QED BY <1>1, <2>3, <2>4, AskerMoves
<1>4. CASE \/ Qo!StopPolling \/ Qo!Check \/ Qo!Answer \/ Qo!Join \/ Qo!Delete \/ UNCHANGED Qo!vars
  <2>1. /\ UNCHANGED asking /\ online' \in Players
        /\ (asker' = asker /\ quit' = quit) \/ (asker' = 0 /\ quit' = quit \cup ({asker} \ {0}))
    BY <1>1, <1>4 DEF Qo!StopPolling, Qo!Check, Qo!Answer, Qo!Join, Qo!Delete, Qo!vars, Qo!world
  <2> QED BY <1>1, <2>1, AskerStops
<1> QED BY <1>2, <1>3, <1>4 DEF Qo!Next

\* A new loop starts when none is at work, with nothing cached.
LEMMA QueryStartKeeps ==
  ASSUME TellInv, NEW l \in QueryLoops, Qu!StartPolling(l) PROVE TellInv'
<1>1. AskInv(QueryLoops) /\ 0 \notin QueryLoops
  BY LoopAssumption DEF TellInv
<1>2. [asking[l] EXCEPT !.pc = "load"] \in [pc : QueryPcs \ {"none"}, players : Answers]
  BY <1>1, AskerRecord DEF QueryPcs
<1>3. /\ asking' = [asking EXCEPT ![l] = [asking[l] EXCEPT !.pc = "load"]]
      /\ asker' = l /\ quit' = quit \cup ({asker} \ {0}) /\ UNCHANGED online
      /\ players' = Qu!None /\ (\A k \in QueryLoops : ~Qu!Over(k))
  BY DEF Qu!StartPolling, Qu!Goto, Qu!world
<1>4. AskInv(QueryLoops)'
  BY <1>1, <1>2, <1>3, AskerMoves
<1>5. \A k \in QueryLoops \ {l} : asking'[k] = asking[k]
  BY <1>1, <1>3 DEF AskInv
<1>6. \A k \in QueryLoops : Qu!Over(k)' => k = l
  BY <1>3, <1>5 DEF Qu!Over, Qu!At
<1> QED BY <1>3, <1>4, <1>6 DEF TellInv, Qu!PlayersAreTold

\* The loop at work asks, stores and tells.
LEMMA QueryLoopKeeps ==
  ASSUME TellInv, NEW l \in QueryLoops, Qu!Step(l) PROVE TellInv'
<1> DEFINE Records == [pc : QueryPcs \ {"none"}, players : Answers]
<1>1. AskInv(QueryLoops) /\ 0 \notin QueryLoops /\ online \in Players
  BY LoopAssumption DEF TellInv, AskInv
<1>2. \A pc \in QueryPcs \ {"none"} : [asking[l] EXCEPT !.pc = pc] \in Records
  BY <1>1, AskerRecord
<1>3. [pc |-> "store", players |-> online] \in Records
  BY <1>1 DEF QueryPcs, Answers
<1>4. PICK r \in Records : asking' = [asking EXCEPT ![l] = r]
  BY <1>2, <1>3 DEF Qu!Step, Qu!Load, Qu!Query, Qu!Store, Qu!Publish, Qu!Wait, Qu!Goto, QueryPcs
<1>5. asking[l].pc \notin {"none", "ended"} /\ UNCHANGED <<asker, quit, online>>
  BY DEF Qu!Step, Qu!Load, Qu!Query, Qu!Store, Qu!Publish, Qu!Wait, Qu!At, Qu!world
<1>6. AskInv(QueryLoops)'
  BY <1>1, <1>4, <1>5, AskerMoves
<1>7. asking'[l] = r /\ (\A k \in QueryLoops \ {l} : asking'[k] = asking[k])
  BY <1>1, <1>4 DEF AskInv
<1>8. \A k \in QueryLoops : Qu!Over(k) \/ Qu!Over(k)' => k = l
  BY <1>5, <1>7 DEF TellInv, Qu!Over, Qu!At
<1>9. asking \in [QueryLoops -> [pc : QueryPcs, players : Answers]]
  BY <1>1 DEF AskInv
<1>10. \A k \in QueryLoops : Qu!At(k, "publish") \/ Qu!At(k, "publish")' => k = l
  BY <1>8 DEF Qu!Over, Qu!At
<1>11. CASE Qu!Load(l) \/ Qu!Wait(l)
  <2>1. UNCHANGED <<players, told>> /\ asking[l].pc # "publish" /\ r.pc # "publish"
    BY <1>7, <1>9, <1>11 DEF Qu!Load, Qu!Wait, Qu!Goto, Qu!At
  <2> QED BY <1>6, <1>7, <1>8, <1>10, <2>1 DEF TellInv, Qu!PlayersAreTold, Qu!At
<1>12. CASE Qu!Query(l)
  <2>1. UNCHANGED <<players, told>> /\ asking[l].pc # "publish" /\ r.pc # "publish"
    BY <1>7, <1>9, <1>12 DEF Qu!Query, Qu!Goto, Qu!At
  <2> QED BY <1>6, <1>7, <1>8, <1>10, <2>1 DEF TellInv, Qu!PlayersAreTold, Qu!At
<1>13. CASE Qu!Store(l)
  <2>1. /\ players' = asking[l].players /\ told' = told /\ asking[l].pc = "store"
        /\ r.pc = IF players = asking[l].players THEN "wait" ELSE "publish"
        /\ r.players = asking[l].players
    BY <1>7, <1>9, <1>13 DEF Qu!Store, Qu!Goto, Qu!At
  <2>2. Qu!PlayersAreTold'
    <3>1. CASE players = asking[l].players
      BY <1>10, <2>1, <3>1 DEF TellInv, Qu!PlayersAreTold, Qu!At
    <3>2. CASE players # asking[l].players
      BY <1>7, <2>1, <3>2 DEF Qu!PlayersAreTold, Qu!At
    <3> QED BY <3>1, <3>2
  <2> QED BY <1>6, <1>7, <1>8, <1>10, <2>1, <2>2 DEF TellInv
<1>14. CASE Qu!Publish(l)
  <2>1. /\ told' = asking[l].players /\ players' = players /\ asking[l].pc = "publish" /\ r.pc = "wait"
    BY <1>7, <1>9, <1>14 DEF Qu!Publish, Qu!Goto, Qu!At
  <2>2. players \in {Qu!None, asking[l].players}
    BY <2>1 DEF TellInv, Qu!At
  <2> QED BY <1>6, <1>7, <1>8, <1>10, <2>1, <2>2 DEF TellInv, Qu!PlayersAreTold, Qu!At
<1> QED BY <1>11, <1>12, <1>13, <1>14 DEF Qu!Step

\* Loops that do not overlap: what the last event told is what is cached.
LEMMA QueryStep == ASSUME TellInv, [Qu!Next]_(Qu!vars) PROVE TellInv'
<1>1. CASE \/ Qu!StopPolling \/ Qu!Check \/ Qu!Answer \/ Qu!Join \/ Qu!Delete \/ UNCHANGED Qu!vars
  <2>1. AskInv(QueryLoops) /\ 0 \notin QueryLoops /\ online \in Players
    BY LoopAssumption DEF TellInv, AskInv
  <2>2. /\ UNCHANGED asking /\ online' \in Players
        /\ (asker' = asker /\ quit' = quit) \/ (asker' = 0 /\ quit' = quit \cup ({asker} \ {0}))
        /\ told' = told /\ players' \in {players, Qu!None}
    BY <1>1, <2>1 DEF Qu!StopPolling, Qu!Check, Qu!Answer, Qu!Join, Qu!Delete, Qu!vars, Qu!world
  <2>3. AskInv(QueryLoops)'
    BY <2>1, <2>2, AskerStops
  <2> QED BY <2>2, <2>3 DEF TellInv, Qu!Over, Qu!At, Qu!PlayersAreTold
<1> QED BY <1>1, QueryStartKeeps, QueryLoopKeeps DEF Qu!Next

\* Before the first loop nothing is cached and nothing told.
LEMMA QueryStarts ==
  /\ Qu!Init => TellInv
  /\ Qo!Init => AskInv(OverlapLoops)
BY DEF Qu!Init, Qo!Init, TellInv, AskInv, QueryPcs, Answers, Qu!None, Qo!None, Qu!Over, Qu!At,
       Qu!PlayersAreTold

\* What a statistics loop and a query loop keep.
LevelsPart ==
  /\ part = "stats" => StatInv
  /\ part = "query" => TellInv
  /\ part = "queries" => AskInv(OverlapLoops)

\* However loops are started, stopped and overtaken: every one at work can be stopped,
\* a sample is in one place only, and the last event told the warning level and the
\* players in force.
THEOREM LevelsAreTrue == Spec => []LevelsAreTold
<1>1. Init => LevelsPart
  BY StatStarts, QueryStarts DEF Init, LevelsPart
<1>2. LevelsPart /\ [Next]_vars => LevelsPart'
  <2> SUFFICES ASSUME LevelsPart, [Next]_vars PROVE LevelsPart'
    OBVIOUS
  <2>1. part' = part
    BY StepsOfParts
  <2>2. ASSUME part = "stats" PROVE StatInv'
    BY <2>2, StepsOfParts, StatStep DEF LevelsPart
  <2>3. ASSUME part = "query" PROVE TellInv'
    BY <2>3, StepsOfParts, QueryStep DEF LevelsPart
  <2>4. ASSUME part = "queries" PROVE AskInv(OverlapLoops)'
    BY <2>4, StepsOfParts, OverlapStep DEF LevelsPart
  <2> QED BY <2>1, <2>2, <2>3, <2>4 DEF LevelsPart
<1>3. LevelsPart => LevelsAreTold
  <2>1. TellInv => Qu!OneQueryLoop /\ Qu!PlayersAreTold
    BY DEF TellInv, AskInv, Qu!OneQueryLoop, Qu!At
  <2>2. AskInv(OverlapLoops) => Qo!OneQueryLoop
    BY DEF AskInv, Qo!OneQueryLoop, Qo!At
  <2>3. StatInv => Tl!OneLoop /\ Tl!SampleOnce /\ Tl!EventsTellLevel
    BY DEF StatInv
  <2> QED BY <2>1, <2>2, <2>3 DEF LevelsPart, LevelsAreTold
<1> QED BY <1>1, <1>2, <1>3, PTL DEF Spec

-----------------------------------------------------------------------------
(* Settings of nodes, for any number of nodes, ports and updates: one update  *)
(* at a time.                                                                 *)

NodePcs  == {"idle", "limits", "merge", "write"}
NodeEdit == [pc : NodePcs, node : Nodes \cup {"none"}, upd : Nc!Update]

\* The range about to be written meets no other node's.
Clear(n, start, end) ==
  \A m \in Nodes \ {n} :
    \/ Nc!NoValue \in {start, end, nodeRows[m].start, nodeRows[m].end}
    \/ nodeRows[m].end < start
    \/ end < nodeRows[m].start

NodeInv ==
  /\ nodeRows \in [Nodes -> Nc!Update]
  /\ edits \in [{"u"} -> NodeEdit]
  /\ edits["u"].pc # "idle" => edits["u"].node \in Nodes
  /\ \/ report = Nc!NoReport
     \/ report \in [node : Nodes, mem : Nc!Optional(Limits), cpu : Nc!Optional(Limits)]
  /\ updates \in 0 .. MaxUpdates
  /\ edits["u"].pc = "write" => Clear(edits["u"].node, edits["u"].upd.start, edits["u"].upd.end)
  /\ \A n \in Nodes : Clear(n, nodeRows[n].start, nodeRows[n].end)

\* Before the first update no node has a range.
LEMMA NodeStarts == Nc!Init => NodeInv
<1> SUFFICES ASSUME Nc!Init PROVE NodeInv
  OBVIOUS
<1>1. Nc!Nothing \in Nc!Update
  BY DEF Nc!Nothing, Nc!Update, Nc!Optional
<1>2. nodeRows \in [Nodes -> Nc!Update] /\ \A n \in Nodes : nodeRows[n].start = Nc!NoValue
  BY <1>1 DEF Nc!Init, Nc!Nothing
<1>3. Nc!NoRequest \in NodeEdit
  BY <1>1 DEF Nc!NoRequest, NodeEdit, NodePcs
<1>4. edits \in [{"u"} -> NodeEdit] /\ edits["u"].pc = "idle"
  BY <1>3 DEF Nc!Init, Nc!NoRequest
<1>5. \A n \in Nodes : Clear(n, nodeRows[n].start, nodeRows[n].end)
  BY <1>2 DEF Clear
<1>6. report = Nc!NoReport /\ updates \in 0 .. MaxUpdates
  BY NodeAssumption DEF Nc!Init
<1> QED BY <1>2, <1>4, <1>5, <1>6 DEF NodeInv

\* Limits that are left out, or taken from the row, are limits.
LEMMA GivenIsOptional ==
  ASSUME NEW S, NEW new \in Nc!Optional(S), NEW old \in Nc!Optional(S)
  PROVE  Nc!Given(new, old) \in Nc!Optional(S)
BY DEF Nc!Given, Nc!Optional

\* A write of limits moves no range.
LEMMA LimitsMoveNoRange ==
  ASSUME NodeInv, NEW n \in Nodes, NEW mem \in Nc!Optional(Limits), NEW cpu \in Nc!Optional(Limits),
         nodeRows' = [nodeRows EXCEPT ![n].mem = mem, ![n].cpu = cpu]
  PROVE  /\ nodeRows' \in [Nodes -> Nc!Update]
         /\ \A m \in Nodes : nodeRows'[m].start = nodeRows[m].start /\ nodeRows'[m].end = nodeRows[m].end
<1>1. nodeRows \in [Nodes -> Nc!Update]
  BY DEF NodeInv
<1>2. nodeRows[n] \in Nc!Update
  BY <1>1
<1>3. [[nodeRows[n] EXCEPT !.mem = mem] EXCEPT !.cpu = cpu] \in Nc!Update
  BY <1>2 DEF Nc!Update
<1>4. nodeRows' = [nodeRows EXCEPT ![n] = [[nodeRows[n] EXCEPT !.mem = mem] EXCEPT !.cpu = cpu]]
  BY <1>1
<1>5. nodeRows' \in [Nodes -> Nc!Update]
  BY <1>1, <1>3, <1>4
<1>6. nodeRows'[n] = [[nodeRows[n] EXCEPT !.mem = mem] EXCEPT !.cpu = cpu]
  BY <1>1, <1>4
<1>7. nodeRows'[n].start = nodeRows[n].start /\ nodeRows'[n].end = nodeRows[n].end
  BY <1>2, <1>6 DEF Nc!Update
<1>8. \A m \in Nodes \ {n} : nodeRows'[m] = nodeRows[m]
  BY <1>1, <1>4
<1> QED BY <1>5, <1>7, <1>8

\* The ranges stay clear of each other, and of the one about to be written, when
\* only limits are written.
LEMMA RangesStay ==
  ASSUME NodeInv, nodeRows' \in [Nodes -> Nc!Update],
         \A m \in Nodes : nodeRows'[m].start = nodeRows[m].start /\ nodeRows'[m].end = nodeRows[m].end,
         edits' \in [{"u"} -> NodeEdit],
         (edits'["u"].pc # "idle" => edits'["u"].node \in Nodes),
         (edits'["u"].pc = "write" => edits' = edits),
         (\/ report' = Nc!NoReport
          \/ report' \in [node : Nodes, mem : Nc!Optional(Limits), cpu : Nc!Optional(Limits)]),
         updates' \in 0 .. MaxUpdates
  PROVE  NodeInv'
<1>1. \A n \in Nodes : Clear(n, nodeRows[n].start, nodeRows[n].end)'
  BY DEF NodeInv, Clear
<1>2. edits'["u"].pc = "write" => Clear(edits["u"].node, edits["u"].upd.start, edits["u"].upd.end)'
  BY DEF NodeInv, Clear
<1> QED BY <1>1, <1>2 DEF NodeInv

\* Ports and the mark for none are integers.
LEMMA PortsAreIntegers == Nc!Optional(NodePorts) \subseteq Int
BY NodeAssumption DEF Nc!Optional, Nc!NoValue

\* The merged range is written only when it is clear of the others.
LEMMA MergedIsClear == ASSUME NodeInv, Nc!MergeRange("u") PROVE NodeInv'
<1> DEFINE n == edits["u"].node
           s == Nc!Given(edits["u"].upd.start, nodeRows[n].start)
           e == Nc!Given(edits["u"].upd.end, nodeRows[n].end)
<1>1. edits["u"].pc = "merge" /\ n \in Nodes /\ edits \in [{"u"} -> NodeEdit] /\ nodeRows \in [Nodes -> Nc!Update]
  BY DEF NodeInv, Nc!MergeRange
<1>2. edits["u"] \in NodeEdit /\ nodeRows[n] \in Nc!Update /\ edits["u"].upd \in Nc!Update
  BY <1>1 DEF NodeEdit
<1>3. s \in Nc!Optional(NodePorts) /\ e \in Nc!Optional(NodePorts)
  BY <1>2, GivenIsOptional DEF Nc!Update
<1>4. UNCHANGED <<nodeRows, report, updates>>
  BY DEF Nc!MergeRange
<1>5. CASE edits' = [edits EXCEPT !["u"] = Nc!NoRequest]
  <2>1. Nc!NoRequest \in NodeEdit
    BY DEF Nc!NoRequest, NodeEdit, NodePcs, Nc!Nothing, Nc!Update, Nc!Optional
  <2>2. edits' \in [{"u"} -> NodeEdit] /\ edits'["u"].pc = "idle"
    BY <1>1, <1>5, <2>1 DEF Nc!NoRequest
  <2> QED BY <1>1, <1>4, <2>2, RangesStay DEF NodeInv
<1>6. CASE ~(Nc!NoValue \notin {s, e} /\ Nc!Overlaps(n, s, e))
  <2> DEFINE upd == [[edits["u"].upd EXCEPT !.start = s] EXCEPT !.end = e]
             new == [[edits["u"] EXCEPT !.pc = "write"] EXCEPT !.upd = upd]
  <2>1. upd \in Nc!Update /\ upd.start = s /\ upd.end = e
    BY <1>2, <1>3 DEF Nc!Update
  <2>2. edits' = [edits EXCEPT !["u"].pc = "write", !["u"].upd.start = s, !["u"].upd.end = e]
    BY <1>6 DEF Nc!MergeRange
  <2>3. edits'["u"] = new
    BY <1>1, <1>2, <2>2 DEF NodeEdit
  <2> HIDE DEF upd, s, e
  <2>4. new \in NodeEdit /\ new.pc = "write" /\ new.node = n /\ new.upd = upd
    BY <1>2, <2>1 DEF NodeEdit, NodePcs
  <2>5. edits' \in [{"u"} -> NodeEdit]
    BY <1>1, <2>2, <2>3, <2>4
  <2>6. Clear(n, s, e)
    <3> SUFFICES ASSUME NEW m \in Nodes \ {n},
                        Nc!NoValue \notin {s, e, nodeRows[m].start, nodeRows[m].end}
                 PROVE  nodeRows[m].end < s \/ e < nodeRows[m].start
      BY DEF Clear
    <3>1. ~(s <= nodeRows[m].end /\ e >= nodeRows[m].start)
      BY <1>6 DEF Nc!Overlaps
    <3>2. nodeRows[m] \in Nc!Update
      BY <1>1
    <3>3. s \in Int /\ e \in Int /\ nodeRows[m].start \in Int /\ nodeRows[m].end \in Int
      BY <1>3, <3>2, PortsAreIntegers DEF Nc!Update
    <3> HIDE DEF n
    <3> QED BY <3>1, <3>3
  <2>7. Clear(edits["u"].node, edits["u"].upd.start, edits["u"].upd.end)'
    BY <1>4, <2>1, <2>3, <2>4, <2>6 DEF Clear
  <2> HIDE DEF new
  <2>8. edits'["u"].node \in Nodes
    BY <1>1, <2>3, <2>4
  <2>9. \A m \in Nodes : Clear(m, nodeRows[m].start, nodeRows[m].end)'
    BY <1>4 DEF NodeInv, Clear
  <2> QED BY <1>4, <2>5, <2>7, <2>8, <2>9 DEF NodeInv
<1> QED BY <1>5, <1>6 DEF Nc!MergeRange

\* The range that is written was found clear, and still is.
LEMMA WrittenIsClear == ASSUME NodeInv, Nc!SetPortRange("u") PROVE NodeInv'
<1> DEFINE n == edits["u"].node
           s == edits["u"].upd.start
           e == edits["u"].upd.end
<1>1. n \in Nodes /\ edits \in [{"u"} -> NodeEdit] /\ nodeRows \in [Nodes -> Nc!Update] /\ Clear(n, s, e)
  BY DEF NodeInv, Nc!SetPortRange
<1>2. edits["u"] \in NodeEdit /\ nodeRows[n] \in Nc!Update /\ edits["u"].upd \in Nc!Update
  BY <1>1 DEF NodeEdit
<1>3. s \in Nc!Optional(NodePorts) /\ e \in Nc!Optional(NodePorts)
  BY <1>2 DEF Nc!Update
<1>4. /\ nodeRows' = [nodeRows EXCEPT ![n].start = s, ![n].end = e]
      /\ edits' = [edits EXCEPT !["u"] = Nc!NoRequest]
      /\ UNCHANGED <<report, updates>>
  BY DEF Nc!SetPortRange
<1> HIDE DEF n, s, e
<1> DEFINE new == [[nodeRows[n] EXCEPT !.start = s] EXCEPT !.end = e]
<1>5. new \in Nc!Update /\ new.start = s /\ new.end = e
  BY <1>2, <1>3 DEF Nc!Update
<1>6. nodeRows' = [nodeRows EXCEPT ![n] = new]
  BY <1>1, <1>4
<1> HIDE DEF new
<1>7. nodeRows' \in [Nodes -> Nc!Update] /\ nodeRows'[n] = new
  BY <1>1, <1>5, <1>6
<1>8. \A m \in Nodes \ {n} : nodeRows'[m] = nodeRows[m]
  BY <1>1, <1>6
<1>9. Nc!NoRequest \in NodeEdit
  BY DEF Nc!NoRequest, NodeEdit, NodePcs, Nc!Nothing, Nc!Update, Nc!Optional
<1>10. edits' \in [{"u"} -> NodeEdit] /\ edits'["u"].pc = "idle"
  BY <1>1, <1>4, <1>9 DEF Nc!NoRequest
<1>11. \A m \in Nodes : Clear(m, nodeRows[m].start, nodeRows[m].end)'
  <2> SUFFICES ASSUME NEW m \in Nodes, NEW k \in Nodes \ {m},
                      Nc!NoValue \notin {nodeRows'[m].start, nodeRows'[m].end, nodeRows'[k].start, nodeRows'[k].end}
               PROVE  nodeRows'[k].end < nodeRows'[m].start \/ nodeRows'[m].end < nodeRows'[k].start
    BY DEF Clear
  <2>1. CASE m = n
    BY <1>1, <1>5, <1>7, <1>8, <2>1 DEF Clear
  <2>2. CASE k = n
    BY <1>1, <1>5, <1>7, <1>8, <2>2 DEF Clear
  <2>3. CASE m # n /\ k # n
    BY <1>8, <2>3 DEF NodeInv, Clear
  <2> QED BY <2>1, <2>2, <2>3
<1> QED BY <1>4, <1>7, <1>10, <1>11 DEF NodeInv

\* Every step keeps the ranges clear of each other.
LEMMA NodeStep == ASSUME NodeInv, [Nc!Next]_(Nc!vars) PROVE NodeInv'
<1>0. /\ nodeRows \in [Nodes -> Nc!Update] /\ edits \in [{"u"} -> NodeEdit]
      /\ edits["u"].pc # "idle" => edits["u"].node \in Nodes
      /\ updates \in 0 .. MaxUpdates
      /\ \/ report = Nc!NoReport
         \/ report \in [node : Nodes, mem : Nc!Optional(Limits), cpu : Nc!Optional(Limits)]
  BY DEF NodeInv
<1>1. CASE Nc!Begin("u")
  <2>1. PICK n \in Nodes, upd \in Nc!Update :
          edits' = [edits EXCEPT !["u"] = [pc |-> "limits", node |-> n, upd |-> upd]]
    BY <1>1 DEF Nc!Begin
  <2>2. [pc |-> "limits", node |-> n, upd |-> upd] \in NodeEdit
    BY DEF NodeEdit, NodePcs
  <2>3. edits' \in [{"u"} -> NodeEdit] /\ edits'["u"].pc = "limits" /\ edits'["u"].node \in Nodes
    BY <1>0, <2>1, <2>2
  <2>4. UNCHANGED <<nodeRows, report>> /\ updates' \in 0 .. MaxUpdates
    BY <1>0, <1>1, NodeAssumption DEF Nc!Begin
  <2> QED BY <1>0, <2>3, <2>4, RangesStay
<1>2. CASE Nc!SetLimits("u")
  <2> DEFINE n == edits["u"].node
             upd == edits["u"].upd
  <2>1. n \in Nodes /\ edits["u"] \in NodeEdit /\ UNCHANGED <<report, updates>>
    BY <1>0, <1>2 DEF Nc!SetLimits
  <2>2. upd.mem \in Nc!Optional(Limits) /\ upd.cpu \in Nc!Optional(Limits)
    BY <2>1 DEF NodeEdit, Nc!Update
  <2>3. nodeRows' = nodeRows \/ nodeRows' = [nodeRows EXCEPT ![n].mem = upd.mem, ![n].cpu = upd.cpu]
    BY <1>2 DEF Nc!SetLimits
  <2>4. /\ nodeRows' \in [Nodes -> Nc!Update]
        /\ \A m \in Nodes : nodeRows'[m].start = nodeRows[m].start /\ nodeRows'[m].end = nodeRows[m].end
    <3> HIDE DEF n, upd
    <3> QED BY <1>0, <2>1, <2>2, <2>3, LimitsMoveNoRange
  <2>5. edits' = [edits EXCEPT !["u"] = Nc!NoRequest] \/ edits' = [edits EXCEPT !["u"].pc = "merge"]
    BY <1>2 DEF Nc!SetLimits
  <2>6. Nc!NoRequest \in NodeEdit /\ [edits["u"] EXCEPT !.pc = "merge"] \in NodeEdit
    BY <2>1 DEF Nc!NoRequest, NodeEdit, NodePcs, Nc!Nothing, Nc!Update, Nc!Optional
  <2>7. edits' \in [{"u"} -> NodeEdit]
    BY <1>0, <2>5, <2>6
  <2>8. edits'["u"] = Nc!NoRequest \/ edits'["u"] = [edits["u"] EXCEPT !.pc = "merge"]
    BY <1>0, <2>5
  <2>9. edits'["u"].pc = "idle" \/ (edits'["u"].pc = "merge" /\ edits'["u"].node = n)
    BY <2>1, <2>8 DEF Nc!NoRequest, NodeEdit
  <2> HIDE DEF n
  <2> QED BY <1>0, <2>1, <2>4, <2>7, <2>9, RangesStay
<1>3. CASE Nc!ReportLimits
  <2>1. PICK n \in Nodes, mem \in Nc!Optional(Limits \ {0}), cpu \in Nc!Optional(Limits \ {0}) :
          report' = [node |-> n, mem |-> Nc!Given(mem, nodeRows[n].mem), cpu |-> Nc!Given(cpu, nodeRows[n].cpu)]
    BY <1>3 DEF Nc!ReportLimits
  <2>2. mem \in Nc!Optional(Limits) /\ cpu \in Nc!Optional(Limits) /\ nodeRows[n] \in Nc!Update
    BY <1>0 DEF Nc!Optional
  <2>3. nodeRows[n].mem \in Nc!Optional(Limits) /\ nodeRows[n].cpu \in Nc!Optional(Limits)
    BY <2>2 DEF Nc!Update
  <2>4. Nc!Given(mem, nodeRows[n].mem) \in Nc!Optional(Limits) /\ Nc!Given(cpu, nodeRows[n].cpu) \in Nc!Optional(Limits)
    BY <2>2, <2>3, GivenIsOptional
  <2>5. report' \in [node : Nodes, mem : Nc!Optional(Limits), cpu : Nc!Optional(Limits)]
    BY <2>1, <2>4
  <2>6. UNCHANGED <<nodeRows, edits>> /\ updates' \in 0 .. MaxUpdates
    BY <1>0, <1>3, NodeAssumption DEF Nc!ReportLimits
  <2> QED BY <1>0, <2>5, <2>6, RangesStay
<1>4. CASE Nc!StoreReport
  <2>1. report \in [node : Nodes, mem : Nc!Optional(Limits), cpu : Nc!Optional(Limits)]
    BY <1>0, <1>4 DEF Nc!StoreReport
  <2>2. nodeRows' = [nodeRows EXCEPT ![report.node].mem = report.mem, ![report.node].cpu = report.cpu]
    BY <1>4 DEF Nc!StoreReport
  <2>3. report' = Nc!NoReport /\ UNCHANGED <<edits, updates>>
    BY <1>4 DEF Nc!StoreReport
  <2>4. /\ nodeRows' \in [Nodes -> Nc!Update]
        /\ \A m \in Nodes : nodeRows'[m].start = nodeRows[m].start /\ nodeRows'[m].end = nodeRows[m].end
    BY <2>1, <2>2, LimitsMoveNoRange
  <2> QED BY <1>0, <2>3, <2>4, RangesStay
<1>5. CASE UNCHANGED Nc!vars
  BY <1>5 DEF Nc!vars, NodeInv, Clear
<1> QED BY <1>1, <1>2, <1>3, <1>4, <1>5, MergedIsClear, WrittenIsClear DEF Nc!Next, Nc!Step

\* Ranges that are clear of each other share no port.
LEMMA NodePromises == NodeInv => Nc!NoOverlap
<1> SUFFICES ASSUME NodeInv, NEW n \in Nodes, NEW m \in Nodes, n # m,
                    NEW p \in Nc!PortRange(n), p \in Nc!PortRange(m)
             PROVE  FALSE
  BY DEF Nc!NoOverlap
<1>1. /\ Nc!NoValue \notin {nodeRows[n].start, nodeRows[n].end, nodeRows[m].start, nodeRows[m].end}
      /\ p \in nodeRows[n].start .. nodeRows[n].end /\ p \in nodeRows[m].start .. nodeRows[m].end
  BY DEF Nc!PortRange
<1>2. nodeRows[m].end < nodeRows[n].start \/ nodeRows[n].end < nodeRows[m].start
  BY <1>1 DEF NodeInv, Clear
<1>3. nodeRows[n] \in Nc!Update /\ nodeRows[m] \in Nc!Update
  BY DEF NodeInv
<1>4. nodeRows[n].start \in Int /\ nodeRows[n].end \in Int /\ nodeRows[m].start \in Int /\ nodeRows[m].end \in Int
  BY <1>3, PortsAreIntegers DEF Nc!Update
<1> QED BY <1>1, <1>2, <1>4

-----------------------------------------------------------------------------
(* The proxy, for any number of gameservers, nodes, ports and events.         *)

Told == [type : {"ready", "exited", "error", "stopped"}, gs : Games]

\* No event of g is on its way; the last one on its way is of one of the types.
NoneOf(s, g) == \A i \in 1 .. Len(s) : s[i].gs # g
LastOf(s, g, types) ==
  \E i \in 1 .. Len(s) :
    /\ s[i].gs = g /\ s[i].type \in types
    /\ \A j \in i + 1 .. Len(s) : s[j].gs # g

\* The subscriber is at work on nothing that has g's port.
Elsewhere(g) == listener = Px!Idle \/ listener.gs.port # games[g].port

\* The record of a gameserver that is there, and no port of two.
GamesInv(Rows) ==
  /\ games \in [Games -> Rows \cup {null}]
  /\ ready \in SUBSET Games
  /\ news \in Seq(Told)
  /\ listener \in {Px!Idle} \cup [pc : {"set", "remove"}, gs : Rows]
  /\ \A g \in ready : games[g] # null /\ games[g].node # null
  /\ \A g, h \in Games : games[g] # null /\ games[h] # null /\ games[g].port = games[h].port => g = h

\* A ready gameserver on another node is told of as the last event of it, is being
\* routed, or is routed or its route could not be set.
Held(g) ==
  \/ games[g].node = Local
  \/ LastOf(news, g, {"ready"})
  \/ NoneOf(news, g) /\ listener = [pc |-> "set", gs |-> games[g]]
  \/ /\ NoneOf(news, g) /\ Elsewhere(g)
     /\ routes[games[g].port] = games[g].node \/ games[g].port \in refused

RoutedInv ==
  /\ GamesInv(Px!Rows)
  /\ routes \in [GamePorts -> ProxyNodes \cup {null}]
  /\ ~loaded => ready = {}
  /\ \A g \in ready \ misled : Held(g)

\* A gameserver that is not ready is told of as the last event of it, is losing its
\* route, or has none; and every route is that of a gameserver.
Gone == {"exited", "error", "stopped"}
Freed(g) ==
  \/ LastOf(news, g, Gone)
  \/ NoneOf(news, g) /\ listener = [pc |-> "remove", gs |-> games[g]]
  \/ NoneOf(news, g) /\ Elsewhere(g) /\ routes[games[g].port] = null

UnroutedInv ==
  /\ GamesInv(Rt!Rows)
  /\ routes \in [GamePorts -> RouteNodes \cup {null}]
  /\ listener # Px!Idle => \E g \in Games : games[g] # null /\ listener.gs = games[g]
  /\ \A p \in GamePorts : routes[p] # null =>
       \E g \in Games : games[g] # null /\ games[g].port = p /\ games[g].node = routes[p]
  /\ ~loaded => news = << >> /\ listener = Px!Idle /\ \A p \in GamePorts : routes[p] = null
  /\ \A g \in Games \ (ready \cup misled) : games[g] # null => Freed(g)

\* An event more at the end is the last one of its gameserver; others see none.
LEMMA AppendTells ==
  ASSUME NEW s \in Seq(Told), NEW e \in Told, NEW g \in Games, NEW types
  PROVE  /\ Append(s, e) \in Seq(Told)
         /\ e.gs # g /\ NoneOf(s, g) => NoneOf(Append(s, e), g)
         /\ e.gs # g /\ LastOf(s, g, types) => LastOf(Append(s, e), g, types)
         /\ e.gs = g /\ e.type \in types => LastOf(Append(s, e), g, types)
<1> DEFINE t == Append(s, e)
<1>1. /\ t \in Seq(Told) /\ Len(t) = Len(s) + 1 /\ Len(s) \in Nat
      /\ t[Len(s) + 1] = e /\ \A i \in 1 .. Len(s) : t[i] = s[i]
  OBVIOUS
<1> HIDE DEF t
<1>2. ASSUME e.gs # g, NoneOf(s, g) PROVE NoneOf(t, g)
  BY <1>1, <1>2 DEF NoneOf
<1>3. ASSUME e.gs # g, LastOf(s, g, types) PROVE LastOf(t, g, types)
  <2>1. PICK i \in 1 .. Len(s) : s[i].gs = g /\ s[i].type \in types /\ \A j \in i + 1 .. Len(s) : s[j].gs # g
    BY <1>3 DEF LastOf
  <2>2. i \in 1 .. Len(t) /\ t[i] = s[i]
    BY <1>1
  <2>3. \A j \in i + 1 .. Len(t) : t[j].gs # g
    BY <1>1, <1>3, <2>1
  <2> QED BY <2>1, <2>2, <2>3 DEF LastOf
<1>4. ASSUME e.gs = g, e.type \in types PROVE LastOf(t, g, types)
  <2>1. Len(s) + 1 \in 1 .. Len(t) /\ \A j \in Len(s) + 1 + 1 .. Len(t) : t[j].gs # g
    BY <1>1
  <2> QED BY <1>1, <1>4, <2>1 DEF LastOf
<1> QED BY <1>1, <1>2, <1>3, <1>4 DEF t

\* When the first event is taken, the last of a gameserver is still on its way or
\* was that one.
LEMMA TailTells ==
  ASSUME NEW s \in Seq(Told), s # << >>, NEW g \in Games, NEW types
  PROVE  /\ Tail(s) \in Seq(Told) /\ Head(s) \in Told
         /\ NoneOf(s, g) => NoneOf(Tail(s), g) /\ Head(s).gs # g
         /\ LastOf(s, g, types) =>
              \/ LastOf(Tail(s), g, types)
              \/ Head(s).gs = g /\ Head(s).type \in types /\ NoneOf(Tail(s), g)
<1> DEFINE t == Tail(s)
<1>1. /\ t \in Seq(Told) /\ Len(t) = Len(s) - 1 /\ Len(s) \in Nat /\ Len(s) >= 1
      /\ Head(s) = s[1] /\ Head(s) \in Told /\ \A i \in 1 .. Len(s) - 1 : t[i] = s[i + 1]
  OBVIOUS
<1> HIDE DEF t
<1>2. ASSUME NoneOf(s, g) PROVE NoneOf(t, g) /\ Head(s).gs # g
  <2>1. \A i \in 1 .. Len(t) : t[i] = s[i + 1] /\ i + 1 \in 1 .. Len(s)
    BY <1>1
  <2>2. 1 \in 1 .. Len(s)
    BY <1>1
  <2> QED BY <1>1, <1>2, <2>1, <2>2 DEF NoneOf
<1>3. ASSUME LastOf(s, g, types)
      PROVE  \/ LastOf(t, g, types)
             \/ Head(s).gs = g /\ Head(s).type \in types /\ NoneOf(t, g)
  <2>1. PICK i \in 1 .. Len(s) : s[i].gs = g /\ s[i].type \in types /\ \A j \in i + 1 .. Len(s) : s[j].gs # g
    BY <1>3 DEF LastOf
  <2>2. CASE i = 1
    <3>1. \A j \in 1 .. Len(t) : t[j] = s[j + 1] /\ j + 1 \in 2 .. Len(s)
      BY <1>1
    <3>2. \A j \in 1 .. Len(t) : t[j].gs # g
      BY <2>1, <2>2, <3>1
    <3> QED BY <1>1, <2>1, <2>2, <3>2 DEF NoneOf
  <2>3. CASE i # 1
    <3>1. i - 1 \in 1 .. Len(t) /\ t[i - 1] = s[i]
      BY <1>1, <2>3
    <3>2. \A j \in (i - 1) + 1 .. Len(t) : t[j] = s[j + 1] /\ j + 1 \in i + 1 .. Len(s)
      BY <1>1, <2>3
    <3>3. \A j \in (i - 1) + 1 .. Len(t) : t[j].gs # g
      BY <2>1, <3>2
    <3> QED BY <2>1, <3>1, <3>3 DEF LastOf
  <2> QED BY <2>2, <2>3
<1> QED BY <1>1, <1>2, <1>3 DEF t

\* A crash tells of the exit and of the error.
LEMMA CrashTells ==
  ASSUME NEW s \in Seq(Told), NEW g \in Games, NEW h \in Games, NEW types
  PROVE  LET t == s \o <<[type |-> "exited", gs |-> g], [type |-> "error", gs |-> g]>> IN
         /\ t \in Seq(Told)
         /\ g # h /\ NoneOf(s, h) => NoneOf(t, h)
         /\ g # h /\ LastOf(s, h, types) => LastOf(t, h, types)
         /\ g = h /\ "error" \in types => LastOf(t, h, types)
<1> DEFINE a == [type |-> "exited", gs |-> g]
           b == [type |-> "error", gs |-> g]
<1>1. a \in Told /\ b \in Told /\ a.gs = g /\ b.gs = g /\ b.type = "error"
  BY DEF Told
<1>2. s \o <<a, b>> = Append(Append(s, a), b)
  BY <1>1
<1> HIDE DEF a, b
<1>3. Append(s, a) \in Seq(Told)
  BY <1>1
<1>4. /\ a.gs # h /\ NoneOf(s, h) => NoneOf(Append(s, a), h)
      /\ a.gs # h /\ LastOf(s, h, types) => LastOf(Append(s, a), h, types)
  BY <1>1, AppendTells
<1>5. /\ Append(Append(s, a), b) \in Seq(Told)
      /\ b.gs # h /\ NoneOf(Append(s, a), h) => NoneOf(Append(Append(s, a), b), h)
      /\ b.gs # h /\ LastOf(Append(s, a), h, types) => LastOf(Append(Append(s, a), b), h, types)
      /\ b.gs = h /\ b.type \in types => LastOf(Append(Append(s, a), b), h, types)
  BY <1>1, <1>3, AppendTells
<1>6. /\ s \o <<a, b>> \in Seq(Told)
      /\ g # h /\ NoneOf(s, h) => NoneOf(s \o <<a, b>>, h)
      /\ g # h /\ LastOf(s, h, types) => LastOf(s \o <<a, b>>, h, types)
      /\ g = h /\ "error" \in types => LastOf(s \o <<a, b>>, h, types)
  BY <1>1, <1>2, <1>4, <1>5
<1> QED BY <1>6 DEF a, b

\* What happens to one gameserver, which is not ready afterwards, leaves the others'
\* events and routes alone.
LEMMA PartsWith ==
  ASSUME RoutedInv, NEW g \in Games, NEW r \in Px!Rows \cup {null},
         ready' = ready \ {g}, games' = [games EXCEPT ![g] = r],
         \A h \in Games \ {g} : r # null /\ games[h] # null => games[h].port # r.port,
         news' \in Seq(Told),
         \A h \in Games \ {g} :
           /\ NoneOf(news, h) => NoneOf(news, h)'
           /\ LastOf(news, h, {"ready"}) => LastOf(news, h, {"ready"})',
         misled \ {g} \subseteq misled',
         UNCHANGED <<loaded, listener, routes, refused>>
  PROVE  RoutedInv'
<1>0. games \in [Games -> Px!Rows \cup {null}] /\ ready \in SUBSET Games
  BY DEF RoutedInv, GamesInv
<1>1. games' \in [Games -> Px!Rows \cup {null}] /\ games'[g] = r /\ \A h \in Games \ {g} : games'[h] = games[h]
  BY <1>0
<1>2. ready' \in SUBSET Games /\ ready' \subseteq ready \ {g}
  BY <1>0
<1>3. \A h \in ready' : games'[h] # null /\ games'[h].node # null
  BY <1>1, <1>2 DEF RoutedInv, GamesInv
<1>4. ASSUME NEW h \in Games, NEW k \in Games, games'[h] # null, games'[k] # null, games'[h].port = games'[k].port
      PROVE  h = k
  <2>1. CASE h = g \/ k = g
    BY <1>1, <1>4, <2>1
  <2>2. CASE h # g /\ k # g
    BY <1>1, <1>4, <2>2 DEF RoutedInv, GamesInv
  <2> QED BY <2>1, <2>2
<1>5. listener' \in {Px!Idle} \cup [pc : {"set", "remove"}, gs : Px!Rows]
  BY DEF RoutedInv, GamesInv
<1>6. GamesInv(Px!Rows)'
  <2>1. UNCHANGED <<Px!Rows, Px!Idle>>
    BY DEF Px!Rows, Px!Idle
  <2> QED BY <1>1, <1>2, <1>3, <1>4, <1>5, <2>1 DEF GamesInv
<1>7. ASSUME NEW h \in ready' \ misled' PROVE Held(h)'
  <2>1. h \in Games \ {g} /\ games'[h] = games[h] /\ Held(h)
    BY <1>0, <1>1, <1>2 DEF RoutedInv
  <2>2. Elsewhere(h) => Elsewhere(h)'
    BY <2>1 DEF Elsewhere, Px!Idle
  <2>3. /\ NoneOf(news, h) => NoneOf(news, h)'
        /\ LastOf(news, h, {"ready"}) => LastOf(news, h, {"ready"})'
    BY <2>1
  <2> QED BY <2>1, <2>2, <2>3 DEF Held
<1> QED BY <1>2, <1>6, <1>7 DEF RoutedInv

\* The other gameservers' events stay as they are when one is told of, or nothing.
LEMMA OthersUntold ==
  ASSUME news \in Seq(Told), NEW g \in Games,
         \/ UNCHANGED news
         \/ \E e \in Told : e.gs = g /\ news' = Append(news, e)
         \/ news' = news \o <<[type |-> "exited", gs |-> g], [type |-> "error", gs |-> g]>>
  PROVE  /\ news' \in Seq(Told)
         /\ \A h \in Games \ {g} :
              /\ NoneOf(news, h) => NoneOf(news, h)'
              /\ \A types : LastOf(news, h, types) => LastOf(news', h, types)
<1>1. CASE UNCHANGED news
  BY <1>1 DEF NoneOf
<1>2. CASE \E e \in Told : e.gs = g /\ news' = Append(news, e)
  <2>1. PICK e \in Told : e.gs = g /\ news' = Append(news, e)
    BY <1>2
  <2>2. Append(news, e) \in Seq(Told)
    OBVIOUS
  <2>3. ASSUME NEW h \in Games \ {g}, NEW types
        PROVE  /\ NoneOf(news, h) => NoneOf(Append(news, e), h)
               /\ LastOf(news, h, types) => LastOf(Append(news, e), h, types)
    BY <2>1, AppendTells
  <2>4. \A h \in Games \ {g} : NoneOf(news, h) => NoneOf(news, h)'
    BY <2>1, <2>3 DEF NoneOf
  <2> QED BY <2>1, <2>2, <2>3, <2>4
<1>3. CASE news' = news \o <<[type |-> "exited", gs |-> g], [type |-> "error", gs |-> g]>>
  <2> DEFINE t == news \o <<[type |-> "exited", gs |-> g], [type |-> "error", gs |-> g]>>
  <2>1. t \in Seq(Told)
    BY CrashTells
  <2>2. ASSUME NEW h \in Games \ {g}, NEW types
        PROVE  (NoneOf(news, h) => NoneOf(t, h)) /\ (LastOf(news, h, types) => LastOf(t, h, types))
    BY CrashTells
  <2> HIDE DEF t
  <2>3. news' = t
    BY <1>3 DEF t
  <2>4. \A h \in Games \ {g} : NoneOf(news, h) => NoneOf(news, h)'
    BY <2>2, <2>3 DEF NoneOf
  <2> QED BY <2>1, <2>2, <2>3, <2>4
<1> QED BY <1>1, <1>2, <1>3

\* Publishing tells of one gameserver, or drops the event of it.
LEMMA Announced ==
  ASSUME NEW g \in Games, NEW type \in {"ready", "exited", "error", "stopped"},
         Px!Publish(type, g) \/ Px!PublishCrash(g)
  PROVE  /\ \/ UNCHANGED news
            \/ \E e \in Told : e.gs = g /\ news' = Append(news, e)
            \/ news' = news \o <<[type |-> "exited", gs |-> g], [type |-> "error", gs |-> g]>>
         /\ misled \ {g} \subseteq misled'
<1>1. \A t \in {type, "exited"} : Px!Event(t, g) \in Told /\ Px!Event(t, g).gs = g
  BY DEF Px!Event, Told
<1>2. \A t \in {type, "exited"} : Px!Publish(t, g) =>
        /\ UNCHANGED news \/ news' = Append(news, Px!Event(t, g))
        /\ misled \ {g} \subseteq misled'
  BY DEF Px!Publish
<1>3. CASE \E t \in {type, "exited"} : Px!Publish(t, g)
  BY <1>1, <1>2, <1>3
<1>4. CASE Px!PublishCrash(g) /\ ~Px!Publish("exited", g)
  BY <1>4 DEF Px!PublishCrash, Px!Event
<1> QED BY <1>3, <1>4

\* The operations on a gameserver, after which it is not ready.
LEMMA GameParts ==
  ASSUME RoutedInv, NEW g \in Games,
         Px!Crash(g) \/ Px!Stop(g) \/ Px!Restart(g) \/ Px!Archive(g) \/ Px!Delete(g)
           \/ (\E n \in ProxyNodes : Px!Migrate(g, n) \/ \E p \in GamePorts : Px!Create(g, n, p))
           \/ (\E p \in GamePorts : Px!Edit(g, p))
  PROVE  RoutedInv'
<1>0. /\ games \in [Games -> Px!Rows \cup {null}] /\ news \in Seq(Told) /\ ready \in SUBSET Games
      /\ \A h \in ready : games[h] # null
      /\ \A h, k \in Games : games[h] # null /\ games[k] # null /\ games[h].port = games[k].port => h = k
  BY DEF RoutedInv, GamesInv
<1>1. /\ \/ UNCHANGED news
         \/ \E e \in Told : e.gs = g /\ news' = Append(news, e)
         \/ news' = news \o <<[type |-> "exited", gs |-> g], [type |-> "error", gs |-> g]>>
      /\ misled \ {g} \subseteq misled'
  <2>1. CASE UNCHANGED <<news, misled>>
    BY <2>1
  <2>2. CASE Px!Publish("stopped", g) \/ Px!PublishCrash(g)
    BY <2>2, Announced
  <2> QED BY <2>1, <2>2 DEF Px!Stop, Px!Crash, Px!Restart, Px!Archive, Px!Delete,
       Px!Migrate, Px!Create, Px!Edit, Px!stopIfRunning
<1>2. /\ news' \in Seq(Told)
      /\ \A h \in Games \ {g} :
           /\ NoneOf(news, h) => NoneOf(news, h)'
           /\ \A types : LastOf(news, h, types) => LastOf(news', h, types)
  BY <1>0, <1>1, OthersUntold
<1>3. \A h \in Games \ {g} : LastOf(news, h, {"ready"}) => LastOf(news, h, {"ready"})'
  BY <1>2 DEF LastOf
<1>4. UNCHANGED <<loaded, listener, routes, refused>>
  BY DEF Px!Crash, Px!Stop, Px!Restart, Px!Archive, Px!Delete, Px!Migrate, Px!Create, Px!Edit
<1>5. ready' = ready \ {g}
  BY <1>0 DEF Px!Crash, Px!Stop, Px!Restart, Px!Archive, Px!Delete, Px!Migrate, Px!Create, Px!Edit, Px!stopIfRunning
<1>6. \E r \in Px!Rows \cup {null} :
        /\ games' = [games EXCEPT ![g] = r]
        /\ \A h \in Games \ {g} : r # null /\ games[h] # null => games[h].port # r.port
  <2>1. CASE UNCHANGED games
    <3>1. games' = [games EXCEPT ![g] = games[g]] /\ games[g] \in Px!Rows \cup {null}
      BY <1>0, <2>1
    <3> QED BY <1>0, <3>1
  <2>2. CASE Px!Archive(g) \/ \E n \in ProxyNodes : Px!Migrate(g, n)
    <3>1. games[g] # null /\ games[g] \in Px!Rows
      BY <1>0, <2>2 DEF Px!Archive, Px!Migrate, Px!Live
    <3>2. PICK n \in ProxyNodes \cup {null} : games' = [games EXCEPT ![g].node = n]
      BY <2>2 DEF Px!Archive, Px!Migrate
    <3> DEFINE r == [games[g] EXCEPT !.node = n]
    <3>3. r \in Px!Rows /\ r.port = games[g].port
      BY <3>1 DEF Px!Rows
    <3>4. games' = [games EXCEPT ![g] = r]
      BY <1>0, <3>2
    <3> HIDE DEF r
    <3>5. \A h \in Games \ {g} : games[h] # null => games[h].port # r.port
      BY <1>0, <3>1, <3>3
    <3> QED BY <3>3, <3>4, <3>5
  <2>3. CASE Px!Delete(g)
    BY <2>3 DEF Px!Delete
  <2>4. ASSUME NEW p \in GamePorts, Px!Edit(g, p)
        PROVE  \E r \in Px!Rows \cup {null} :
                 /\ games' = [games EXCEPT ![g] = r]
                 /\ \A h \in Games \ {g} : r # null /\ games[h] # null => games[h].port # r.port
    <3>1. games[g] # null /\ games[g] \in Px!Rows /\ ~Px!PortTaken(p) /\ games' = [games EXCEPT ![g].port = p]
      BY <1>0, <2>4 DEF Px!Edit, Px!Live
    <3> DEFINE r == [games[g] EXCEPT !.port = p]
    <3>2. r \in Px!Rows /\ r.port = p
      BY <3>1 DEF Px!Rows
    <3>3. games' = [games EXCEPT ![g] = r]
      BY <1>0, <3>1
    <3> HIDE DEF r
    <3> QED BY <3>1, <3>2, <3>3 DEF Px!PortTaken
  <2>5. ASSUME NEW n \in ProxyNodes, NEW p \in GamePorts, Px!Create(g, n, p)
        PROVE  \E r \in Px!Rows \cup {null} :
                 /\ games' = [games EXCEPT ![g] = r]
                 /\ \A h \in Games \ {g} : r # null /\ games[h] # null => games[h].port # r.port
    <3>1. ~Px!PortTaken(p) /\ games' = [games EXCEPT ![g] = [node |-> n, port |-> p]]
      BY <2>5 DEF Px!Create
    <3> DEFINE r == [node |-> n, port |-> p]
    <3>2. r \in Px!Rows /\ r.port = p
      BY DEF Px!Rows
    <3> HIDE DEF r
    <3>3. games' = [games EXCEPT ![g] = r]
      BY <3>1 DEF r
    <3>4. \A h \in Games \ {g} : games[h] # null => games[h].port # r.port
      BY <3>1, <3>2 DEF Px!PortTaken
    <3> QED BY <3>2, <3>3, <3>4
  <2>6. \/ UNCHANGED games
        \/ Px!Archive(g) \/ Px!Delete(g)
        \/ (\E n \in ProxyNodes : Px!Migrate(g, n) \/ \E p \in GamePorts : Px!Create(g, n, p))
        \/ (\E p \in GamePorts : Px!Edit(g, p))
    BY DEF Px!Crash, Px!Stop, Px!Restart
  <2> QED BY <2>1, <2>2, <2>3, <2>4, <2>5, <2>6
<1>7. PICK r \in Px!Rows \cup {null} :
        /\ games' = [games EXCEPT ![g] = r]
        /\ \A h \in Games \ {g} : r # null /\ games[h] # null => games[h].port # r.port
  BY <1>6
<1> QED BY <1>1, <1>2, <1>3, <1>4, <1>5, <1>7, PartsWith

\* A step that leaves the gameservers and their records alone.
LEMMA GamesStay ==
  ASSUME GamesInv(Px!Rows), UNCHANGED <<games, ready>>, news' \in Seq(Told),
         listener' \in {Px!Idle} \cup [pc : {"set", "remove"}, gs : Px!Rows]
  PROVE  GamesInv(Px!Rows)'
<1>1. UNCHANGED <<Px!Rows, Px!Idle>>
  BY DEF Px!Rows, Px!Idle
<1> QED BY <1>1 DEF GamesInv

\* A gameserver that gets ready is told of, or the event is dropped.
LEMMA GameReady == ASSUME RoutedInv, NEW g \in Games, Px!Ready(g) PROVE RoutedInv'
<1> DEFINE e == Px!Event("ready", g)
<1>0. news \in Seq(Told) /\ ready \in SUBSET Games /\ e \in Told /\ e.gs = g /\ e.type = "ready"
  BY DEF RoutedInv, GamesInv, Told, Px!Event
<1>1. /\ loaded /\ games[g] # null /\ games[g].node # null /\ ready' = ready \cup {g}
      /\ UNCHANGED <<games, loaded, listener, routes, refused>>
      /\ Px!Publish("ready", g)
  BY DEF Px!Ready, Px!Live
<1>2. /\ misled \ {g} \subseteq misled'
      /\ (UNCHANGED news /\ g \in misled') \/ news' = Append(news, e)
  BY <1>1 DEF Px!Publish
<1> HIDE DEF e
<1>3. /\ news' \in Seq(Told)
      /\ \A h \in Games \ {g} :
           /\ NoneOf(news, h) => NoneOf(news, h)'
           /\ \A types : LastOf(news, h, types) => LastOf(news', h, types)
  BY <1>0, <1>2, OthersUntold
<1>4. GamesInv(Px!Rows)'
  <2>1. UNCHANGED <<Px!Rows, Px!Idle>>
    BY DEF Px!Rows, Px!Idle
  <2> QED BY <1>0, <1>1, <1>3, <2>1 DEF RoutedInv, GamesInv
<1>5. ASSUME NEW h \in ready' \ misled' PROVE Held(h)'
  <2>1. CASE h = g
    <3>1. news' = Append(news, e)
      BY <1>2, <1>5, <2>1
    <3>2. LastOf(news', g, {"ready"})
      BY <1>0, <3>1, AppendTells
    <3> QED BY <2>1, <3>2 DEF Held
  <2>2. CASE h # g
    <3>1. h \in Games \ {g} /\ Held(h)
      BY <1>0, <1>1, <1>2, <1>5, <2>2 DEF RoutedInv
    <3>2. /\ NoneOf(news, h) => NoneOf(news', h)
          /\ LastOf(news, h, {"ready"}) => LastOf(news', h, {"ready"})
      BY <1>3, <3>1 DEF NoneOf
    <3> QED BY <1>1, <3>1, <3>2 DEF Held, Elsewhere, Px!Idle
  <2> QED BY <2>1, <2>2
<1> QED BY <1>1, <1>4, <1>5 DEF RoutedInv

\* A failed operation tells of an error; a ready gameserver is misled about then.
LEMMA GameFails == ASSUME RoutedInv, NEW g \in Games, Px!OperationFails(g) PROVE RoutedInv'
<1> DEFINE e == Px!Event("error", g)
<1>0. news \in Seq(Told) /\ ready \in SUBSET Games /\ e \in Told /\ e.gs = g
  BY DEF RoutedInv, GamesInv, Told, Px!Event
<1>1. /\ UNCHANGED <<games, ready, loaded, listener, routes, refused>>
      /\ misled \ {g} \subseteq misled'
      /\ UNCHANGED <<news, misled>> \/ (news' = Append(news, e) /\ (g \in ready => g \in misled'))
  BY DEF Px!OperationFails
<1> HIDE DEF e
<1>2. /\ news' \in Seq(Told)
      /\ \A h \in Games \ {g} :
           /\ NoneOf(news, h) => NoneOf(news, h)'
           /\ \A types : LastOf(news, h, types) => LastOf(news', h, types)
  BY <1>0, <1>1, OthersUntold
<1>3. GamesInv(Px!Rows)'
  <2>1. listener' \in {Px!Idle} \cup [pc : {"set", "remove"}, gs : Px!Rows]
    BY <1>1 DEF RoutedInv, GamesInv
  <2> QED BY <1>1, <1>2, <2>1, GamesStay DEF RoutedInv
<1>4. ASSUME NEW h \in ready' \ misled' PROVE Held(h)'
  <2>1. CASE UNCHANGED <<news, misled>>
    <3>1. Held(h)
      BY <1>1, <1>4, <2>1 DEF RoutedInv
    <3> QED BY <1>1, <2>1, <3>1 DEF Held, Elsewhere, Px!Idle
  <2>2. CASE ~UNCHANGED <<news, misled>>
    <3>1. h \in Games \ {g} /\ Held(h)
      BY <1>0, <1>1, <1>4, <2>2 DEF RoutedInv
    <3>2. /\ NoneOf(news, h) => NoneOf(news', h)
          /\ LastOf(news, h, {"ready"}) => LastOf(news', h, {"ready"})
      BY <1>2, <3>1 DEF NoneOf
    <3> QED BY <1>1, <3>1, <3>2 DEF Held, Elsewhere, Px!Idle
  <2> QED BY <2>1, <2>2
<1> QED BY <1>1, <1>3, <1>4 DEF RoutedInv

\* What the subscriber looks up is a record as it is now.
LEMMA ListenerLooksUp ==
  ASSUME RoutedInv, Px!listen
  PROVE  /\ news # << >> /\ news' = Tail(news) /\ Head(news) \in Told /\ listener = Px!Idle
         /\ \/ listener' = Px!Idle
            \/ /\ games[Head(news).gs] # null /\ games[Head(news).gs] \in Px!Rows
               /\ \/ listener' = [pc |-> "set", gs |-> games[Head(news).gs]]
                  \/ listener' = [pc |-> "remove", gs |-> games[Head(news).gs]]
         /\ Head(news).type = "ready" /\ Px!Routable(Head(news).gs) =>
              \/ listener' = [pc |-> "set", gs |-> games[Head(news).gs]]
              \/ listener' = Px!Idle /\ games[Head(news).gs].port \in refused'
         /\ UNCHANGED <<games, ready, loaded, routes, misled>>
         /\ refused \subseteq refused'
<1>1. games \in [Games -> Px!Rows \cup {null}] /\ news \in Seq(Told)
  BY DEF RoutedInv, GamesInv
<1>2. /\ news # << >> /\ news' = Tail(news) /\ listener = Px!Idle
      /\ UNCHANGED <<games, ready, loaded, routes, misled>>
  BY DEF Px!listen
<1>3. Head(news) \in Told /\ Head(news).gs \in Games
  <2>1. Head(news) \in Told
    BY <1>1, <1>2
  <2> QED BY <2>1 DEF Told
<1> QED BY <1>1, <1>2, <1>3 DEF Px!listen, Px!LookupAdd, Px!LookupRemove, Px!Routable, Px!Live

\* The last event of a ready gameserver, once taken, becomes its route.
LEMMA GameHeard == ASSUME RoutedInv, Px!listen PROVE RoutedInv'
<1> DEFINE e == Head(news)
<1>0. news \in Seq(Told) /\ ready \in SUBSET Games
  BY DEF RoutedInv, GamesInv
<1>1. /\ news # << >> /\ news' = Tail(news) /\ e \in Told /\ listener = Px!Idle
      /\ \/ listener' = Px!Idle
         \/ /\ games[e.gs] # null /\ games[e.gs] \in Px!Rows
            /\ \/ listener' = [pc |-> "set", gs |-> games[e.gs]]
               \/ listener' = [pc |-> "remove", gs |-> games[e.gs]]
      /\ e.type = "ready" /\ Px!Routable(e.gs) =>
           \/ listener' = [pc |-> "set", gs |-> games[e.gs]]
           \/ listener' = Px!Idle /\ games[e.gs].port \in refused'
      /\ UNCHANGED <<games, ready, loaded, routes, misled>>
      /\ refused \subseteq refused'
  BY ListenerLooksUp
<1>2. news' \in Seq(Told) /\ e.gs \in Games
  BY <1>0, <1>1, TailTells DEF Told
<1>3. listener' \in {Px!Idle} \cup [pc : {"set", "remove"}, gs : Px!Rows]
  BY <1>1
<1>4. GamesInv(Px!Rows)'
  BY <1>1, <1>2, <1>3, GamesStay DEF RoutedInv
<1>5. ASSUME NEW g \in ready' \ misled' PROVE Held(g)'
  <2>0. g \in Games /\ Held(g) /\ games[g] # null /\ games[g].node # null /\ loaded
    BY <1>0, <1>1, <1>5 DEF RoutedInv, GamesInv
  <2>1. /\ NoneOf(news, g) => NoneOf(news', g) /\ e.gs # g
        /\ LastOf(news, g, {"ready"}) =>
             \/ LastOf(news', g, {"ready"})
             \/ e.gs = g /\ e.type \in {"ready"} /\ NoneOf(news', g)
    BY <1>0, <1>1, <2>0, TailTells
  <2>2. CASE games[g].node = Local
    BY <1>1, <2>2 DEF Held
  <2>3. CASE LastOf(news', g, {"ready"})
    BY <2>3 DEF Held
  <2>4. CASE games[g].node # Local /\ e.gs = g /\ e.type = "ready" /\ NoneOf(news', g)
    <3>1. Px!Routable(g)
      BY <2>0, <2>4 DEF Px!Routable, Px!Live
    <3>2. CASE listener' = [pc |-> "set", gs |-> games[g]]
      BY <1>1, <2>4, <3>2 DEF Held
    <3>3. CASE listener' = Px!Idle /\ games[g].port \in refused'
      <4>1. Elsewhere(g)'
        BY <3>3 DEF Elsewhere, Px!Idle
      <4> QED BY <1>1, <2>4, <3>3, <4>1 DEF Held
    <3> QED BY <1>1, <2>4, <3>1, <3>2, <3>3
  <2>5. CASE /\ NoneOf(news, g)
             /\ routes[games[g].port] = games[g].node \/ games[g].port \in refused
    <3>1. listener' = Px!Idle \/ listener'.gs.port # games[g].port
      <4>1. CASE listener' = Px!Idle
        BY <4>1
      <4>2. CASE listener' # Px!Idle
        <5>1. games[e.gs] # null /\ listener'.gs = games[e.gs] /\ e.gs # g
          BY <1>1, <2>1, <2>5, <4>2
        <5> QED BY <1>2, <2>0, <5>1 DEF RoutedInv, GamesInv
      <4> QED BY <4>1, <4>2
    <3>2. Elsewhere(g)'
      BY <1>1, <3>1 DEF Elsewhere, Px!Idle
    <3> QED BY <1>1, <2>1, <2>5, <3>2 DEF Held
  <2>6. ~(NoneOf(news, g) /\ listener = [pc |-> "set", gs |-> games[g]])
    BY <1>1 DEF Px!Idle
  <2> QED BY <2>0, <2>1, <2>2, <2>3, <2>4, <2>5, <2>6 DEF Held
<1> QED BY <1>1, <1>4, <1>5 DEF RoutedInv

\* The subscriber routes and unroutes the port of the record it looked up.
LEMMA GameRouted == ASSUME RoutedInv, Px!Set \/ Px!Remove PROVE RoutedInv'
<1> DEFINE p == listener.gs.port
<1>0. /\ games \in [Games -> Px!Rows \cup {null}] /\ ready \in SUBSET Games /\ news \in Seq(Told)
      /\ routes \in [GamePorts -> ProxyNodes \cup {null}] /\ \A g \in ready : games[g] # null
  BY DEF RoutedInv, GamesInv
<1>1. UNCHANGED <<games, ready, news, loaded, misled>> /\ listener' = Px!Idle
  BY DEF Px!Set, Px!Remove
<1>2. listener # Px!Idle /\ listener \in [pc : {"set", "remove"}, gs : Px!Rows]
  BY DEF Px!Set, Px!Remove, Px!Idle, RoutedInv, GamesInv
<1>3. listener.gs \in Px!Rows /\ p \in GamePorts /\ listener.gs.node \in ProxyNodes \cup {null}
  BY <1>2 DEF Px!Rows
<1>4. \/ routes' = [routes EXCEPT ![p] = listener.gs.node] /\ listener.pc = "set"
      \/ routes' = routes /\ refused' = refused \cup {p} /\ listener.pc = "set"
      \/ routes' = [routes EXCEPT ![p] = null] /\ listener.pc = "remove"
  BY DEF Px!Set, Px!Remove
<1>5. refused' \cup {p} = refused \cup {p}
  BY DEF Px!Set, Px!Remove
<1> HIDE DEF p
<1>6. routes' \in [GamePorts -> ProxyNodes \cup {null}] /\ \A q \in GamePorts \ {p} : routes'[q] = routes[q]
  BY <1>0, <1>3, <1>4
<1>7. GamesInv(Px!Rows)'
  BY <1>1, GamesStay DEF RoutedInv, GamesInv
<1>8. ASSUME NEW g \in ready' \ misled' PROVE Held(g)'
  <2>0. g \in Games /\ Held(g) /\ games[g] \in Px!Rows /\ games[g].port \in GamePorts /\ Elsewhere(g)'
    <3>1. g \in Games /\ games[g] \in Px!Rows
      BY <1>0, <1>1
    <3>2. Elsewhere(g)'
      BY <1>1 DEF Elsewhere, Px!Idle
    <3> QED BY <1>1, <1>8, <3>1, <3>2 DEF RoutedInv, Px!Rows
  <2>1. CASE games[g].node = Local \/ LastOf(news, g, {"ready"})
    BY <1>1, <2>1 DEF Held
  <2>2. CASE NoneOf(news, g) /\ listener = [pc |-> "set", gs |-> games[g]]
    <3>1. p = games[g].port /\ listener.pc = "set" /\ listener.gs.node = games[g].node
      BY <2>2 DEF p
    <3>2. routes'[p] = games[g].node \/ p \in refused'
      BY <1>0, <1>3, <1>4, <3>1
    <3> QED BY <1>1, <2>0, <2>2, <3>1, <3>2 DEF Held
  <2>3. CASE /\ NoneOf(news, g) /\ Elsewhere(g)
             /\ routes[games[g].port] = games[g].node \/ games[g].port \in refused
    <3>1. games[g].port # p
      BY <1>2, <2>3 DEF Elsewhere, p
    <3>2. routes'[games[g].port] = games[g].node \/ games[g].port \in refused'
      BY <1>5, <1>6, <2>0, <2>3, <3>1
    <3> QED BY <1>1, <2>0, <2>3, <3>2 DEF Held
  <2> QED BY <2>0, <2>1, <2>2, <2>3 DEF Held
<1> QED BY <1>1, <1>6, <1>7, <1>8 DEF RoutedInv

\* Every step keeps the routes of the ready gameservers.
LEMMA RoutedStep == ASSUME RoutedInv, [Px!Next]_(Px!vars) PROVE RoutedInv'
<1>1. CASE Px!Reboot
  BY <1>1 DEF Px!Reboot, Px!Count
<1>2. CASE Px!SyncThenRecoverAll
  <2>1. /\ ready = {} /\ loaded' = TRUE
        /\ UNCHANGED <<games, ready, news, listener, refused>>
    BY <1>2 DEF Px!SyncThenRecoverAll, RoutedInv
  <2>2. GamesInv(Px!Rows)'
    BY <2>1, GamesStay DEF RoutedInv, GamesInv
  <2>3. routes' = routes
    BY <1>2, <2>1 DEF Px!SyncThenRecoverAll, RoutedInv
  <2> QED BY <2>1, <2>2, <2>3 DEF RoutedInv
<1>3. CASE UNCHANGED Px!vars
  <2>1. UNCHANGED <<games, ready, loaded, news, listener, routes, refused, misled>>
    BY <1>3 DEF Px!vars
  <2>2. GamesInv(Px!Rows)'
    BY <2>1, GamesStay DEF RoutedInv, GamesInv
  <2>3. \A g \in ready : Held(g) => Held(g)'
    BY <2>1 DEF Held, Elsewhere, Px!Idle
  <2> QED BY <2>1, <2>2, <2>3 DEF RoutedInv
<1> QED BY <1>1, <1>2, <1>3, GameReady, GameFails, GameParts, GameHeard, GameRouted DEF Px!Next

\* Before the controller has recovered nothing is ready.
LEMMA RoutedStarts == Px!Init => RoutedInv
<1> SUFFICES ASSUME Px!Init PROVE RoutedInv
  OBVIOUS
<1>1. ready = {} /\ loaded = FALSE /\ news = << >> /\ listener = Px!Idle
  BY DEF Px!Init
<1>2. routes \in [GamePorts -> ProxyNodes \cup {null}] /\ games \in [Games -> Px!Rows \cup {null}]
  BY DEF Px!Init
<1>3. \A g, h \in Games : games[g] # null /\ games[h] # null /\ games[g].port = games[h].port => g = h
  BY DEF Px!Init
<1>4. GamesInv(Px!Rows)
  BY <1>1, <1>2, <1>3 DEF GamesInv
<1> QED BY <1>1, <1>2, <1>4 DEF RoutedInv

\* Once every event is handled, the ready gameservers are routed.
LEMMA RoutedPromises == RoutedInv => Px!RoutedWhenReady
<1> SUFFICES ASSUME RoutedInv, Px!Settled, NEW g \in ready \ misled, games[g].node # Local
             PROVE  routes[games[g].port] = games[g].node \/ games[g].port \in refused
  BY DEF Px!RoutedWhenReady
<1>1. Held(g) /\ news = << >> /\ listener = Px!Idle
  BY DEF RoutedInv, Px!Settled
<1>2. ~LastOf(news, g, {"ready"})
  <2>1. 1 .. Len(news) = {}
    BY <1>1
  <2> QED BY <2>1 DEF LastOf
<1> QED BY <1>1, <1>2 DEF Held, Px!Idle

\* A step that leaves the gameservers' records alone.
LEMMA RecordsStay ==
  ASSUME GamesInv(Rt!Rows), UNCHANGED games, news' \in Seq(Told), ready' \in SUBSET Games,
         \A g \in ready' : games[g] # null /\ games[g].node # null,
         listener' \in {Px!Idle} \cup [pc : {"set", "remove"}, gs : Rt!Rows]
  PROVE  GamesInv(Rt!Rows)'
<1>1. UNCHANGED <<Rt!Rows, Px!Idle>>
  BY DEF Rt!Rows, Px!Idle
<1> QED BY <1>1 DEF GamesInv

\* A gameserver that gets ready, fails or is stopped is told of, unless the event is
\* dropped, and no route changes.
LEMMA GameTurns ==
  ASSUME UnroutedInv, NEW g \in Games, Rt!Ready(g) \/ Rt!Crash(g) \/ Rt!Stop(g) \/ Rt!OperationFails(g)
  PROVE  UnroutedInv'
<1>0. /\ games \in [Games -> Rt!Rows \cup {null}] /\ news \in Seq(Told) /\ ready \in SUBSET Games
      /\ \A h \in ready : games[h] # null /\ games[h].node # null
  BY DEF UnroutedInv, GamesInv
<1>1. loaded /\ games[g] # null /\ UNCHANGED <<games, loaded, listener, routes, refused>>
  BY DEF Rt!Ready, Rt!Crash, Rt!Stop, Rt!OperationFails, Rt!Live
<1>2. /\ \/ UNCHANGED news
         \/ \E e \in Told : e.gs = g /\ news' = Append(news, e)
         \/ news' = news \o <<[type |-> "exited", gs |-> g], [type |-> "error", gs |-> g]>>
      /\ misled \ {g} \subseteq misled'
      /\ g \notin ready' \cup misled' => LastOf(news', g, Gone) \/ UNCHANGED <<news, ready, misled>>
  <2>0. "error" \in Gone /\ "stopped" \in Gone /\ "exited" \in Gone
    BY DEF Gone
  <2>1. \A t \in {"ready", "exited", "error", "stopped"} :
          /\ Rt!Event(t, g) \in Told /\ Rt!Event(t, g).gs = g /\ Rt!Event(t, g).type = t
          /\ t \in Gone => LastOf(Append(news, Rt!Event(t, g)), g, Gone)
    <3>1. ASSUME NEW t \in {"ready", "exited", "error", "stopped"}
          PROVE  Rt!Event(t, g) \in Told /\ Rt!Event(t, g).gs = g /\ Rt!Event(t, g).type = t
      BY DEF Rt!Event, Told
    <3> QED BY <1>0, <3>1, AppendTells
  <2>2. CASE Rt!Ready(g)
    <3>1. g \in ready' /\ Rt!Publish("ready", g)
      BY <2>2 DEF Rt!Ready
    <3> QED BY <2>1, <3>1 DEF Rt!Publish
  <2>3. CASE Rt!Stop(g)
    <3>1. Rt!Publish("stopped", g)
      BY <2>3 DEF Rt!Stop
    <3> QED BY <2>0, <2>1, <3>1 DEF Rt!Publish
  <2>4. CASE Rt!OperationFails(g)
    <3>1. \/ news' = Append(news, Rt!Event("error", g)) /\ misled \ {g} \subseteq misled'
          \/ UNCHANGED <<news, ready, misled>>
      BY <2>4 DEF Rt!OperationFails
    <3> QED BY <2>0, <2>1, <3>1
  <2>5. CASE Rt!Crash(g) /\ Rt!Publish("exited", g)
    BY <2>0, <2>1, <2>5 DEF Rt!Publish
  <2>6. CASE Rt!Crash(g) /\ ~Rt!Publish("exited", g)
    <3>1. /\ news' = news \o <<[type |-> "exited", gs |-> g], [type |-> "error", gs |-> g]>>
          /\ misled' = misled \ {g}
      BY <2>6 DEF Rt!Crash, Rt!PublishCrash, Rt!Event
    <3>2. LastOf(news \o <<[type |-> "exited", gs |-> g], [type |-> "error", gs |-> g]>>, g, Gone)
      BY <1>0, <2>0, CrashTells
    <3> QED BY <3>1, <3>2
  <2> QED BY <2>2, <2>3, <2>4, <2>5, <2>6
<1>3. /\ news' \in Seq(Told)
      /\ \A h \in Games \ {g} :
           /\ NoneOf(news, h) => NoneOf(news, h)'
           /\ \A types : LastOf(news, h, types) => LastOf(news', h, types)
  BY <1>0, <1>2, OthersUntold
<1>4. ready' \in SUBSET Games /\ ready' \cup {g} = ready \cup {g}
  BY <1>0 DEF Rt!Ready, Rt!Crash, Rt!Stop, Rt!OperationFails
<1>5. \A h \in ready' : games[h] # null /\ games[h].node # null
  <2>1. CASE Rt!Ready(g)
    BY <1>0, <1>1, <2>1 DEF Rt!Ready
  <2>2. CASE Rt!Crash(g) \/ Rt!Stop(g) \/ Rt!OperationFails(g)
    BY <1>0, <2>2 DEF Rt!Crash, Rt!Stop, Rt!OperationFails
  <2> QED BY <2>1, <2>2
<1>6. GamesInv(Rt!Rows)'
  <2>1. listener' \in {Px!Idle} \cup [pc : {"set", "remove"}, gs : Rt!Rows]
    BY <1>1 DEF UnroutedInv, GamesInv
  <2> QED BY <1>1, <1>3, <1>4, <1>5, <2>1, RecordsStay DEF UnroutedInv
<1>7. ASSUME NEW h \in Games \ (ready' \cup misled'), games'[h] # null PROVE Freed(h)'
  <2>0. UNCHANGED Gone /\ games[h] # null
    BY <1>1, <1>7 DEF Gone
  <2>1. CASE h = g /\ LastOf(news', g, Gone)
    BY <2>0, <2>1 DEF Freed
  <2>2. CASE h = g /\ UNCHANGED <<news, ready, misled>>
    <3>1. Freed(g)
      BY <1>7, <2>0, <2>2 DEF UnroutedInv
    <3> QED BY <1>1, <2>0, <2>2, <3>1 DEF Freed, Elsewhere, Px!Idle
  <2>3. CASE h # g
    <3>1. h \in Games \ {g} /\ Freed(h)
      BY <1>1, <1>2, <1>4, <1>7, <2>0, <2>3 DEF UnroutedInv
    <3>2. Elsewhere(h) => Elsewhere(h)'
      BY <1>1 DEF Elsewhere, Px!Idle
    <3>3. /\ NoneOf(news, h) => NoneOf(news, h)'
          /\ LastOf(news, h, Gone) => LastOf(news', h, Gone)
      BY <1>3, <3>1
    <3> QED BY <1>1, <2>0, <3>1, <3>2, <3>3 DEF Freed
  <2> QED BY <1>2, <1>7, <2>1, <2>2, <2>3
<1>8. UNCHANGED Px!Idle
  BY DEF Px!Idle
<1> QED BY <1>1, <1>6, <1>7, <1>8 DEF UnroutedInv

\* The last event of a gameserver that is not ready, once taken, frees its port.
LEMMA EndHeard == ASSUME UnroutedInv, Rt!listen PROVE UnroutedInv'
<1> DEFINE e == Head(news)
<1>0. /\ games \in [Games -> Rt!Rows \cup {null}] /\ news \in Seq(Told) /\ ready \in SUBSET Games
      /\ \A h \in ready : games[h] # null /\ games[h].node # null
      /\ \A g, h \in Games : games[g] # null /\ games[h] # null /\ games[g].port = games[h].port => g = h
  BY DEF UnroutedInv, GamesInv
<1>1. /\ news # << >> /\ news' = Tail(news) /\ listener = Px!Idle /\ loaded
      /\ UNCHANGED <<games, ready, loaded, routes, misled>>
  BY DEF Rt!listen, Rt!Idle, Px!Idle, UnroutedInv
<1>2. e \in Told /\ e.gs \in Games /\ news' \in Seq(Told)
  <2>1. Head(news) \in Told /\ Tail(news) \in Seq(Told)
    BY <1>0, <1>1
  <2> QED BY <1>1, <2>1 DEF Told
<1>3. /\ \/ listener' = Px!Idle
         \/ /\ games[e.gs] # null /\ games[e.gs] \in Rt!Rows
            /\ \/ listener' = [pc |-> "set", gs |-> games[e.gs]]
               \/ listener' = [pc |-> "remove", gs |-> games[e.gs]]
      /\ e.type # "ready" /\ games[e.gs] # null => listener' = [pc |-> "remove", gs |-> games[e.gs]]
  BY <1>0, <1>1, <1>2 DEF Rt!listen, Rt!LookupAdd, Rt!LookupRemove, Rt!Routable, Rt!Live, Rt!Idle, Px!Idle
<1>4. GamesInv(Rt!Rows)'
  <2>1. listener' \in {Px!Idle} \cup [pc : {"set", "remove"}, gs : Rt!Rows]
    BY <1>3
  <2> QED BY <1>0, <1>1, <1>2, <2>1, RecordsStay DEF UnroutedInv
<1>5. ASSUME NEW g \in Games \ (ready' \cup misled'), games'[g] # null PROVE Freed(g)'
  <2>0. Freed(g) /\ games[g] # null /\ g \in Games /\ "ready" \notin Gone
    BY <1>1, <1>5 DEF UnroutedInv, Gone
  <2>1. /\ NoneOf(news, g) => NoneOf(news', g) /\ e.gs # g
        /\ LastOf(news, g, Gone) => LastOf(news', g, Gone) \/ (e.gs = g /\ e.type \in Gone /\ NoneOf(news', g))
    BY <1>0, <1>1, <2>0, TailTells
  <2>2. CASE LastOf(news', g, Gone)
    BY <2>2 DEF Freed, Gone
  <2>3. CASE e.gs = g /\ e.type \in Gone /\ NoneOf(news', g)
    BY <1>1, <1>3, <2>0, <2>3 DEF Freed
  <2>4. CASE NoneOf(news, g) /\ routes[games[g].port] = null
    <3>1. listener' = Px!Idle \/ listener'.gs.port # games[g].port
      <4>1. CASE listener' # Px!Idle
        <5>1. games[e.gs] # null /\ listener'.gs = games[e.gs] /\ e.gs # g
          BY <1>3, <2>1, <2>4, <4>1
        <5> QED BY <1>0, <1>2, <2>0, <5>1
      <4> QED BY <4>1
    <3>2. Elsewhere(g)'
      BY <1>1, <3>1 DEF Elsewhere, Px!Idle
    <3> QED BY <1>1, <2>1, <2>4, <3>2 DEF Freed
  <2>5. ~(NoneOf(news, g) /\ listener = [pc |-> "remove", gs |-> games[g]])
    BY <1>1 DEF Px!Idle
  <2> QED BY <2>0, <2>1, <2>2, <2>3, <2>4, <2>5 DEF Freed
<1>6. listener' # Px!Idle => \E g \in Games : games[g] # null /\ listener'.gs = games[g]
  BY <1>2, <1>3
<1>7. UNCHANGED Px!Idle
  BY DEF Px!Idle
<1> QED BY <1>1, <1>4, <1>5, <1>6, <1>7 DEF UnroutedInv

\* What the subscriber routes or unroutes is the port of a gameserver that is there.
LEMMA EndRouted == ASSUME UnroutedInv, Rt!Set \/ Rt!Remove PROVE UnroutedInv'
<1> DEFINE p == listener.gs.port
<1>0. /\ games \in [Games -> Rt!Rows \cup {null}] /\ ready \in SUBSET Games /\ news \in Seq(Told)
      /\ routes \in [GamePorts -> RouteNodes \cup {null}]
      /\ \A g \in ready : games[g] # null /\ games[g].node # null
  BY DEF UnroutedInv, GamesInv
<1>1. UNCHANGED <<games, ready, news, loaded, misled>> /\ listener' = Px!Idle
  BY DEF Rt!Set, Rt!Remove, Rt!Idle, Px!Idle
<1>2. listener # Px!Idle /\ listener \in [pc : {"set", "remove"}, gs : Rt!Rows]
  BY DEF Rt!Set, Rt!Remove, Px!Idle, UnroutedInv, GamesInv
<1>3. listener.gs \in Rt!Rows /\ p \in GamePorts /\ listener.gs.node \in RouteNodes \cup {null} /\ loaded
  BY <1>2 DEF Rt!Rows, UnroutedInv
<1>4. \/ routes' = [routes EXCEPT ![p] = listener.gs.node] /\ listener.pc = "set"
      \/ routes' = routes /\ listener.pc = "set"
      \/ routes' = [routes EXCEPT ![p] = null] /\ listener.pc = "remove"
  BY DEF Rt!Set, Rt!Remove
<1>5. PICK k \in Games : games[k] # null /\ listener.gs = games[k]
  BY <1>2 DEF UnroutedInv
<1> HIDE DEF p
<1>6. routes' \in [GamePorts -> RouteNodes \cup {null}] /\ \A q \in GamePorts \ {p} : routes'[q] = routes[q]
  BY <1>0, <1>3, <1>4
<1>7. routes'[p] \in {listener.gs.node, routes[p], null}
  BY <1>0, <1>3, <1>4
<1>8. GamesInv(Rt!Rows)'
  BY <1>0, <1>1, RecordsStay DEF UnroutedInv
<1>9. ASSUME NEW q \in GamePorts, routes'[q] # null
      PROVE  \E g \in Games : games[g] # null /\ games[g].port = q /\ games[g].node = routes'[q]
  <2>1. CASE routes'[q] = routes[q]
    BY <1>9, <2>1 DEF UnroutedInv
  <2>2. CASE routes'[q] # routes[q]
    <3>1. q = p /\ routes'[q] = listener.gs.node
      BY <1>6, <1>7, <1>9, <2>2
    <3> QED BY <1>5, <3>1 DEF p
  <2> QED BY <2>1, <2>2
<1>10. ASSUME NEW g \in Games \ (ready' \cup misled'), games'[g] # null PROVE Freed(g)'
  <2>0. g \in Games /\ Freed(g) /\ games[g] \in Rt!Rows /\ games[g].port \in GamePorts /\ Elsewhere(g)'
    <3>1. games[g] \in Rt!Rows /\ Freed(g)
      BY <1>0, <1>1, <1>10 DEF UnroutedInv
    <3>2. Elsewhere(g)'
      BY <1>1 DEF Elsewhere, Px!Idle
    <3> QED BY <3>1, <3>2 DEF Rt!Rows
  <2>1. CASE LastOf(news, g, Gone)
    BY <1>1, <2>1 DEF Freed, Gone
  <2>2. CASE NoneOf(news, g) /\ listener = [pc |-> "remove", gs |-> games[g]]
    <3>1. p = games[g].port /\ listener.pc = "remove"
      BY <2>2 DEF p
    <3>2. routes'[p] = null
      BY <1>0, <1>3, <1>4, <3>1
    <3> QED BY <1>1, <2>0, <2>2, <3>1, <3>2 DEF Freed
  <2>3. CASE NoneOf(news, g) /\ Elsewhere(g) /\ routes[games[g].port] = null
    <3>1. games[g].port # p
      BY <1>2, <2>3 DEF Elsewhere, p
    <3>2. routes'[games[g].port] = null
      BY <1>6, <2>0, <2>3, <3>1
    <3> QED BY <1>1, <2>0, <2>3, <3>2 DEF Freed
  <2> QED BY <2>0, <2>1, <2>2, <2>3 DEF Freed
<1>11. UNCHANGED Px!Idle
  BY DEF Px!Idle
<1> QED BY <1>1, <1>3, <1>6, <1>8, <1>9, <1>10, <1>11 DEF UnroutedInv

\* A restart of the controller forgets every route and every event.
LEMMA RoutesForgotten ==
  ASSUME UnroutedInv, UNCHANGED <<games, ready>>, news' = << >>, listener' = Px!Idle,
         routes' = [p \in GamePorts |-> null]
  PROVE  UnroutedInv'
<1>0. ready \in SUBSET Games /\ \A g \in ready : games[g] # null /\ games[g].node # null
  BY DEF UnroutedInv, GamesInv
<1>1. GamesInv(Rt!Rows)'
  BY <1>0, RecordsStay DEF UnroutedInv
<1>2. 1 .. Len(news') = {}
  OBVIOUS
<1>3. ASSUME NEW g \in Games, games'[g] # null PROVE Freed(g)'
  <2>1. games[g] \in Rt!Rows
    BY <1>3 DEF UnroutedInv, GamesInv
  <2>2. routes'[games[g].port] = null
    BY <2>1 DEF Rt!Rows
  <2>3. NoneOf(news, g)' /\ Elsewhere(g)'
    BY <1>2 DEF NoneOf, Elsewhere, Px!Idle
  <2> QED BY <2>2, <2>3 DEF Freed
<1>4. UNCHANGED Px!Idle
  BY DEF Px!Idle
<1> QED BY <1>1, <1>3, <1>4 DEF UnroutedInv

\* Every step keeps the ports of the gameservers that are not ready free.
LEMMA UnroutedStep == ASSUME UnroutedInv, [Rt!Next]_(Rt!vars) PROVE UnroutedInv'
<1>1. CASE Rt!Reboot
  BY <1>1, RoutesForgotten DEF Rt!Reboot, Rt!Idle, Px!Idle
<1>2. CASE Rt!SyncThenRecoverAll
  <2>1. ~loaded /\ news = << >> /\ listener = Px!Idle /\ \A p \in GamePorts : routes[p] = null
    BY <1>2 DEF Rt!SyncThenRecoverAll, UnroutedInv
  <2>2. UNCHANGED <<games, ready, news, listener>>
    BY <1>2 DEF Rt!SyncThenRecoverAll
  <2>3. routes' = [p \in GamePorts |-> null]
    BY <1>2, <2>1 DEF Rt!SyncThenRecoverAll, Rt!Routable, Rt!Live
  <2> QED BY <2>1, <2>2, <2>3, RoutesForgotten
<1>3. CASE UNCHANGED Rt!vars
  <2>1. UNCHANGED <<games, ready, loaded, news, listener, routes, refused, misled, Px!Idle>>
    BY <1>3 DEF Rt!vars, Px!Idle
  <2>2. GamesInv(Rt!Rows)'
    BY <2>1, RecordsStay DEF UnroutedInv, GamesInv
  <2>3. \A g \in Games : Freed(g) => Freed(g)'
    BY <2>1 DEF Freed, Elsewhere, Gone
  <2> QED BY <2>1, <2>2, <2>3 DEF UnroutedInv
<1>4. ASSUME NEW g \in Games
      PROVE  ~(\/ Rt!Restart(g) \/ Rt!Archive(g) \/ Rt!Delete(g)
               \/ (\E n \in RouteNodes : Rt!Migrate(g, n) \/ \E p \in GamePorts : Rt!Create(g, n, p))
               \/ (\E p \in GamePorts : Rt!Edit(g, p)))
  BY DEF Rt!Restart, Rt!Archive, Rt!Delete, Rt!Migrate, Rt!Create, Rt!Edit, Rt!Count
<1> QED BY <1>1, <1>2, <1>3, <1>4, GameTurns, EndHeard, EndRouted DEF Rt!Next

\* Before the controller has recovered nothing is routed.
LEMMA UnroutedStarts == Rt!Init => UnroutedInv
<1> SUFFICES ASSUME Rt!Init PROVE UnroutedInv
  OBVIOUS
<1>1. /\ ready = {} /\ loaded = FALSE /\ news = << >> /\ listener = Px!Idle
      /\ routes = [p \in GamePorts |-> null]
  BY DEF Rt!Init, Rt!Idle, Px!Idle
<1>2. games \in [Games -> Rt!Rows \cup {null}]
  BY DEF Rt!Init
<1>3. \A g, h \in Games : games[g] # null /\ games[h] # null /\ games[g].port = games[h].port => g = h
  BY DEF Rt!Init
<1>4. GamesInv(Rt!Rows)
  BY <1>1, <1>2, <1>3 DEF GamesInv
<1>5. 1 .. Len(news) = {}
  BY <1>1
<1>6. ASSUME NEW g \in Games, games[g] # null PROVE Freed(g)
  <2>1. games[g] \in Rt!Rows
    BY <1>2, <1>6
  <2>2. routes[games[g].port] = null
    BY <1>1, <2>1 DEF Rt!Rows
  <2> QED BY <1>1, <1>5, <2>2 DEF Freed, NoneOf, Elsewhere
<1> QED BY <1>1, <1>4, <1>6 DEF UnroutedInv

\* Once every event is handled, a route is that of a ready gameserver.
LEMMA UnroutedPromises == UnroutedInv => Rt!RouteHasGameserver
<1> SUFFICES ASSUME UnroutedInv, Rt!Settled, NEW p \in GamePorts, routes[p] # null
             PROVE  \E g \in ready \cup misled :
                      games[g] # null /\ games[g].port = p /\ games[g].node = routes[p]
  BY DEF Rt!RouteHasGameserver
<1>1. news = << >> /\ listener = Px!Idle
  BY DEF Rt!Settled, Rt!Idle, Px!Idle
<1>2. PICK g \in Games : games[g] # null /\ games[g].port = p /\ games[g].node = routes[p]
  BY DEF UnroutedInv
<1>3. ~Freed(g)
  <2>1. 1 .. Len(news) = {}
    BY <1>1
  <2>2. ~LastOf(news, g, Gone)
    BY <2>1 DEF LastOf
  <2> QED BY <1>1, <1>2, <2>2 DEF Freed, Px!Idle
<1> QED BY <1>2, <1>3 DEF UnroutedInv

\* What the nodes' settings and the two proxies keep.
PortsPart ==
  /\ part = "nodes" => NodeInv
  /\ part = "proxy" => RoutedInv
  /\ part = "routes" => UnroutedInv

\* Whatever is updated, started, stopped, moved, edited, deleted or restarted in
\* between, and whatever events are dropped: no two nodes' ranges share a port, and
\* once every event is handled a ready gameserver on another node is routed there,
\* unless its route could not be set, its ready event was dropped or an operation
\* on it failed since, and every route is that of a ready gameserver or of one
\* whose last event was dropped.
THEOREM PortsLeadHome == Spec => []PortsAreRouted
<1>1. Init => PortsPart
  BY NodeStarts, RoutedStarts, UnroutedStarts DEF Init, PortsPart
<1>2. PortsPart /\ [Next]_vars => PortsPart'
  <2> SUFFICES ASSUME PortsPart, [Next]_vars PROVE PortsPart'
    OBVIOUS
  <2>1. part' = part
    BY StepsOfParts
  <2>2. ASSUME part = "nodes" PROVE NodeInv'
    BY <2>2, StepsOfParts, NodeStep DEF PortsPart
  <2>3. ASSUME part = "proxy" PROVE RoutedInv'
    BY <2>3, StepsOfParts, RoutedStep DEF PortsPart
  <2>4. ASSUME part = "routes" PROVE UnroutedInv'
    BY <2>4, StepsOfParts, UnroutedStep DEF PortsPart
  <2> QED BY <2>1, <2>2, <2>3, <2>4 DEF PortsPart
<1>3. PortsPart => PortsAreRouted
  BY NodePromises, RoutedPromises, UnroutedPromises DEF PortsPart, PortsAreRouted
<1> QED BY <1>1, <1>2, <1>3, PTL DEF Spec
=============================================================================
