---------------------------- MODULE TurnLeaseProofs ----------------------------
(***************************************************************************)
(* LeaseIsTrue and LeakHeals for any number of deliveries and              *)
(* conversations and any three limits.                                     *)
(***************************************************************************)
EXTENDS TurnLease, TLAPS

(* A task that lives has its scope, and the lease is armed for the living; *)
(* a native turn is always one it was armed for.                           *)
Held ==
  \A t \in Task :
    /\ Live(t) => scopes[t] >= 1
    /\ pc[t] = "entered" => scopes[t] = 1
    /\ t \in armed \cup overlaid => Live(t)
    /\ flavour = "native" /\ pc[t] = "turn" => t \in armed

(* While it is armed, the idle clock is not behind the last activity that  *)
(* is not in the file, nor behind the arming.                              *)
Fresh ==
  /\ \A t \in armed : age[t] <= Cap => idle <= age[t]
  /\ armed # {} /\ file # "newer" => idle <= quiet

(* A native turn without an event has been silent within the cap when its  *)
(* wait began.                                                             *)
Bounded ==
  \A t \in Task \ overlaid :
    flavour = "native" /\ pc[t] = "turn" =>
      /\ silent[t] <= Cap + wait[t]
      /\ age[t] <= Cap => silent[t] <= age[t]

IInv == /\ TypeOK /\ Held /\ DatedToTurn /\ Fresh /\ Bounded
        /\ FedIsAlive /\ LeakHeals

(* The limits are positive numbers.                                        *)
LEMMA Limits == /\ Ttl \in Nat /\ Cap \in Nat /\ IdleCap \in Nat
                /\ Ttl > 0 /\ Cap > 0 /\ IdleCap > 0
  BY LeaseAssumption

(* A clock stops at its limit and counts up to there.                      *)
LEMMA AtMostBounds ==
  ASSUME NEW n \in Nat, NEW limit \in Nat
  PROVE  AtMost(n, limit) \in 0..limit /\ AtMost(n, limit) <= n
  BY DEF AtMost

(* It holds at boot.                                                       *)
LEMMA InitIInv == Init => IInv
  <1> SUFFICES ASSUME Init PROVE IInv
    OBVIOUS
  <1> USE Limits DEF Init
  <1>1. TypeOK
    <2>1. 0 \in 0..(Ttl + 1) /\ 0 \in 0..(Cap + 1) /\ Ttl + 1 \in 0..(Ttl + 1)
          /\ 0 \in 0..IdleCap /\ 0 \in 0..(Cap + IdleCap + 1) /\ 0 \in 0..2
      OBVIOUS
    <2>2. /\ pc \in [Task -> {"new", "entered", "turn", "leaving", "done"}]
          /\ context \in [Task -> Context \cup {NoContext}]
          /\ scopes \in [Task -> 0..2] /\ wait \in [Task -> 0..IdleCap]
          /\ age \in [Task -> 0..(Cap + 1)] /\ silent \in [Task -> 0..(Cap + IdleCap + 1)]
      BY <2>1
    <2> QED
      BY <2>1, <2>2 DEF TypeOK
  <1>2. Held /\ DatedToTurn /\ Fresh /\ Bounded /\ FedIsAlive /\ LeakHeals
    BY DEF Held, Live, DatedToTurn, Fresh, Bounded, FedIsAlive, LeakHeals
  <1> QED
    BY <1>1, <1>2 DEF IInv

(* With the file looked at, no verdict is wrong.                           *)
LEMMA VerdictIsRight ==
  ASSUME IInv, Fed, NEW t \in Task
  PROVE  ~Wronged(t)
  <1> SUFFICES ASSUME Wronged(t) PROVE FALSE
    OBVIOUS
  <1> USE Limits DEF IInv, Wronged
  <1>1. turnAge' = turnAge /\ turnAge = age[t]
    BY DEF Fed, Touched, DatedToTurn, lease
  <1>2. idle' > Ttl
    BY <1>1 DEF Alive, TypeOK, Fed, Touched, lease
  <1>3. file # "newer" /\ idle > Ttl
    BY <1>2 DEF Fed, Touched, lease
  <1>4. idle <= quiet /\ idle <= age[t]
    BY <1>3 DEF Fresh
  <1> QED
    BY <1>3, <1>4 DEF TypeOK

(* A look at the file: it feeds the lease, and moves nothing else of it.   *)
LEMMA FedKeeps ==
  ASSUME IInv, Fed
  PROVE  /\ idle' \in 0..(Ttl + 1) /\ turnAge' = turnAge /\ observed' \in BOOLEAN
         /\ file' \in {"none", "seen", "newer"}
         /\ idle' <= idle
         /\ file' # "newer" => file # "newer" \/ idle' = 0
  <1> USE Limits DEF IInv, TypeOK
  <1>1. CASE file = "newer"
    BY <1>1 DEF Fed, Touched
  <1>2. CASE file # "newer"
    BY <1>2 DEF Fed, lease
  <1> QED
    BY <1>1, <1>2

(* A scope that finds no other arms the lease for nobody but its task.     *)
LEMMA NobodyArmed ==
  ASSUME IInv, \A u \in Task : Pruned[u] = 0
  PROVE  armed = {} /\ overlaid = {} /\ \A u \in Task : ~Live(u)
  <1>1. ASSUME NEW u \in Task PROVE ~Live(u)
    BY DEF IInv, Held, TypeOK, Pruned
  <1> QED
    BY <1>1 DEF IInv, Held, TypeOK

(* A delivery enters its scope.                                            *)
LEMMA DeliversStep ==
  ASSUME IInv, NEW t \in Task, Delivers(t)
  PROVE  IInv'
  <1> USE Limits DEF Delivers
  <1>0. pc[t] = "new" /\ ~Live(t) /\ t \notin armed /\ t \notin overlaid
    BY DEF Live, IInv, Held
  <1>1. /\ pc' = [pc EXCEPT ![t] = "entered"]
        /\ scopes' = [Pruned EXCEPT ![t] = @ + 1]
        /\ UNCHANGED <<flavour, wait, quiet, silent, overlaid, wronged, observed>>
    BY DEF EntersScope
  <1>2. scopes'[t] = 1 /\ \A u \in Task \ {t} : Live(u) => scopes'[u] = scopes[u]
    BY <1>0, <1>1 DEF IInv, TypeOK, Pruned
  <1>3. scopes' \in [Task -> 0..2]
    <2>1. Pruned \in [Task -> 0..2]
      BY DEF IInv, TypeOK, Pruned
    <2> QED
      BY <1>1, <1>2, <2>1
  <1>4. /\ context' \in [Task -> Context \cup {NoContext}]
        /\ pc' \in [Task -> {"new", "entered", "turn", "leaving", "done"}]
    BY <1>1 DEF IInv, TypeOK
  <1>5. \A u \in Task : Live(u)' <=> Live(u) \/ u = t
    BY <1>0, <1>1 DEF IInv, TypeOK, Live
  <1>6. \A u \in Task : (pc'[u] = "entered" <=> pc[u] = "entered" \/ u = t)
                        /\ (pc'[u] = "turn" <=> pc[u] = "turn")
    BY <1>0, <1>1 DEF IInv, TypeOK
  <1>7. CASE \A u \in Task : Pruned[u] = 0
    <2>1. armed = {} /\ overlaid = {} /\ \A u \in Task : ~Live(u)
      BY <1>7, NobodyArmed
    <2>2. file' = "seen" /\ watchers' = watchers \cup {t} /\ ArmsIfFed(t)
      BY <1>7 DEF EntersScope, Baselined
    <2>3. \/ idle' = 0 /\ turnAge' = 0 /\ armed' = {t} /\ age' = [age EXCEPT ![t] = 0]
          \/ UNCHANGED <<idle, turnAge, armed, age>>
      BY <2>1, <2>2 DEF ArmsIfFed, ResetFor
    <2>4. 0 \in 0..(Ttl + 1) /\ 0 \in 0..(Cap + 1)
      OBVIOUS
    <2>5. age' \in [Task -> 0..(Cap + 1)] /\ idle' \in 0..(Ttl + 1) /\ turnAge' \in 0..(Cap + 1)
      BY <2>3, <2>4 DEF IInv, TypeOK
    <2>6. declined' = {}
      BY <2>2 DEF IInv, LeakHeals
    <2>7. TypeOK'
      BY <1>1, <1>3, <1>4, <2>1, <2>2, <2>3, <2>5, <2>6 DEF IInv, TypeOK
    <2>8. Held'
      BY <1>1, <1>2, <1>5, <1>6, <2>1, <2>3 DEF IInv, Held, Live
    <2>9. DatedToTurn' /\ Fresh'
      BY <1>1, <2>1, <2>2, <2>3 DEF IInv, TypeOK, DatedToTurn, Fresh
    <2>10. Bounded'
      BY <1>1, <1>6, <2>1 DEF Bounded, Live
    <2> QED
      BY <1>1, <2>6, <2>7, <2>8, <2>9, <2>10 DEF IInv, FedIsAlive, LeakHeals
  <1>8. CASE ~ \A u \in Task : Pruned[u] = 0
    <2>1. UNCHANGED <<file, idle, turnAge, armed, age, watchers>>
      BY <1>8 DEF EntersScope
    <2>2. declined' = {}
      BY <1>8 DEF IInv, LeakHeals, Pruned, TypeOK
    <2>3. TypeOK'
      BY <1>1, <1>3, <1>4, <2>1, <2>2 DEF IInv, TypeOK
    <2>4. Held'
      BY <1>1, <1>2, <1>5, <1>6, <2>1 DEF IInv, Held, Live
    <2>5. DatedToTurn' /\ Fresh' /\ Bounded'
      BY <1>1, <1>6, <2>1 DEF IInv, DatedToTurn, Fresh, Bounded
    <2> QED
      BY <1>1, <2>2, <2>3, <2>4, <2>5 DEF IInv, FedIsAlive, LeakHeals
  <1> QED
    BY <1>7, <1>8

(* The nested scope, which sets nothing up, and a template's turn.         *)
LEMMA NestsStep ==
  ASSUME IInv, NEW t \in Task, RunsAgent(t) \/ RunsTemplate(t)
  PROVE  IInv'
  <1> USE Limits
  <1>1. /\ pc[t] = "entered" /\ Live(t) /\ scopes[t] = 1 /\ flavour # "native"
    BY DEF RunsAgent, RunsTemplate, Live, IInv, Held
  <1>2. /\ UNCHANGED <<flavour, idle, turnAge, observed, file, context, watchers, wait, quiet, age,
                       silent, armed, overlaid, wronged, declined>>
        /\ pc' = [pc EXCEPT ![t] = "turn"]
        /\ \A u \in Task : Live(u) => scopes'[u] >= scopes[u] /\ (u # t => scopes'[u] = scopes[u])
        /\ scopes' \in [Task -> 0..2]
    <2>1. CASE RunsAgent(t)
      <3>1. Pruned \in [Task -> 0..2] /\ Pruned[t] = 1
        BY <1>1 DEF Pruned, IInv, TypeOK
      <3>2. scopes' = [Pruned EXCEPT ![t] = @ + 1]
        BY <2>1 DEF RunsAgent, EntersScope
      <3>3. \A u \in Task : Live(u) => scopes'[u] >= scopes[u] /\ (u # t => scopes'[u] = scopes[u])
        BY <3>1, <3>2 DEF Pruned, IInv, TypeOK
      <3>4. scopes' \in [Task -> 0..2]
        BY <3>1, <3>2
      <3>5. UNCHANGED <<file, idle, turnAge, armed, age, watchers, observed>>
        BY <2>1, <3>1 DEF RunsAgent, EntersScope
      <3> QED
        BY <2>1, <3>3, <3>4, <3>5 DEF RunsAgent
    <2>2. CASE RunsTemplate(t)
      BY <2>2 DEF RunsTemplate, lease, judged, IInv, TypeOK
    <2> QED
      BY <2>1, <2>2
  <1>3. TypeOK'
    BY <1>2 DEF IInv, TypeOK
  <1>4. Held'
    BY <1>1, <1>2 DEF IInv, TypeOK, Held, Live
  <1>5. DatedToTurn' /\ Fresh' /\ Bounded'
    BY <1>1, <1>2 DEF IInv, DatedToTurn, Fresh, Bounded
  <1> QED
    BY <1>2, <1>3, <1>4, <1>5 DEF IInv, FedIsAlive, LeakHeals

(* A native turn: it takes the lease over.                                 *)
LEMMA RunsNativeStep ==
  ASSUME IInv, NEW t \in Task, RunsNative(t)
  PROVE  IInv'
  <1> USE Limits DEF RunsNative, ResetFor
  <1>1. 0 \in 0..(Ttl + 1) /\ 0 \in 0..(Cap + 1) /\ 0 \in 0..IdleCap /\ 0 \in 0..(Cap + IdleCap + 1)
    OBVIOUS
  <1>2. pc[t] = "entered" /\ Live(t)
    BY DEF Live
  <1>3. /\ pc' \in [Task -> {"new", "entered", "turn", "leaving", "done"}]
        /\ age' \in [Task -> 0..(Cap + 1)] /\ wait' \in [Task -> 0..IdleCap]
        /\ silent' \in [Task -> 0..(Cap + IdleCap + 1)]
    BY <1>1 DEF IInv, TypeOK
  <1>4. TypeOK'
    BY <1>1, <1>3 DEF IInv, TypeOK
  <1>5. \A u \in Task : Live(u)' <=> Live(u)
    BY <1>2 DEF Live, IInv, TypeOK
  <1>6. Held'
    BY <1>2, <1>5 DEF IInv, TypeOK, Held, Live
  <1>7. armed' \ overlaid' = {t} /\ age'[t] = 0 /\ wait'[t] = 0 /\ silent'[t] = 0
    BY DEF IInv, TypeOK, Held
  <1>8. DatedToTurn' /\ Fresh'
    BY <1>7, <1>3 DEF IInv, TypeOK, DatedToTurn, Fresh
  <1>9. Bounded'
    <2> SUFFICES ASSUME NEW u \in Task \ overlaid', pc'[u] = "turn"
                 PROVE  silent'[u] <= Cap + wait'[u] /\ (age'[u] <= Cap => silent'[u] <= age'[u])
      BY DEF Bounded
    <2>1. Live(u)
      BY <1>5 DEF Live
    <2>2. u = t
      BY <2>1
    <2> QED
      BY <1>7, <2>2
  <1> QED
    BY <1>4, <1>6, <1>8, <1>9 DEF IInv, FedIsAlive, LeakHeals

(* A turn or a task ends.                                                  *)
LEMMA EndsStep ==
  ASSUME IInv, NEW t \in Task, TurnEnds(t) \/ Returns(t) \/ Abandons(t)
  PROVE  IInv'
  <1> USE Limits
  <1>1. 0 \in 0..2 /\ 0 \in 0..(Cap + 1) /\ 0 \in 0..IdleCap /\ 0 \in 0..(Cap + IdleCap + 1)
    OBVIOUS
  <1>2. UNCHANGED <<flavour, idle, turnAge, observed, file, quiet, wronged, declined>>
    BY DEF TurnEnds, Returns, Abandons, TaskOver, TurnOver, lease
  <1>3. \E s \in {"leaving", "done"} : pc' = [pc EXCEPT ![t] = s]
    BY DEF TurnEnds, Returns, Abandons, TaskOver
  <1>4. /\ \A u \in Task \ {t} : /\ scopes'[u] = scopes[u] /\ age'[u] = age[u]
                                 /\ silent'[u] = silent[u] /\ wait'[u] = wait[u]
                                 /\ pc'[u] = pc[u]
        /\ scopes' \in [Task -> 0..2] /\ age' \in [Task -> 0..(Cap + 1)]
        /\ wait' \in [Task -> 0..IdleCap] /\ silent' \in [Task -> 0..(Cap + IdleCap + 1)]
        /\ pc' \in [Task -> {"new", "entered", "turn", "leaving", "done"}]
        /\ context' \in [Task -> Context \cup {NoContext}]
        /\ watchers' \subseteq Task
    BY <1>1 DEF IInv, TypeOK, TurnEnds, Returns, Abandons, TaskOver, TurnOver
  <1>5. \/ Live(t)' /\ Live(t) /\ UNCHANGED <<armed, overlaid, age>> /\ scopes'[t] >= 1
        \/ ~Live(t)' /\ armed' = armed \ {t} /\ overlaid' = overlaid \ {t}
    <2>1. CASE TurnEnds(t)
      BY <2>1 DEF TurnEnds, Live, IInv, Held, TypeOK
    <2>2. CASE Returns(t) \/ Abandons(t)
      BY <2>2 DEF Returns, Abandons, TaskOver, Live, IInv, TypeOK
    <2> QED
      BY <2>1, <2>2
  <1>6. TypeOK'
    BY <1>2, <1>4, <1>5 DEF IInv, TypeOK
  <1>7. Held'
    BY <1>2, <1>3, <1>4, <1>5 DEF IInv, TypeOK, Held, Live
  <1>8. DatedToTurn' /\ Fresh'
    BY <1>2, <1>4, <1>5 DEF IInv, TypeOK, DatedToTurn, Fresh
  <1>9. Bounded'
    BY <1>2, <1>3, <1>4, <1>5 DEF IInv, TypeOK, Bounded
  <1> QED
    BY <1>2, <1>6, <1>7, <1>8, <1>9 DEF IInv, FedIsAlive, LeakHeals

(* Activity that is observed.                                              *)
LEMMA ActivityStep ==
  ASSUME IInv, (\E t \in Task : Streams(t)) \/ Bumps
  PROVE  IInv'
  <1> USE Limits
  <1>1. 0 \in 0..(Ttl + 1) /\ 0 \in 0..IdleCap /\ 0 \in 0..(Cap + IdleCap + 1)
    OBVIOUS
  <1>2. CASE Bumps
    BY <1>1, <1>2 DEF Bumps, IInv, TypeOK, Held, Live, DatedToTurn, Fresh, Bounded, FedIsAlive, LeakHeals
  <1>3. ASSUME NEW t \in Task, Streams(t) PROVE IInv'
    <2> USE <1>3 DEF Streams
    <2>1. /\ UNCHANGED <<turnAge, age, armed, overlaid, pc, scopes, flavour, file, wronged, declined,
                         context, watchers>>
          /\ wait' = [wait EXCEPT ![t] = 0] /\ silent' = [silent EXCEPT ![t] = 0]
          /\ (idle' = 0 /\ quiet' = 0) \/ UNCHANGED <<idle, quiet>>
          /\ observed' \in BOOLEAN
      BY DEF Touched, IInv, TypeOK
    <2>2. wait' \in [Task -> 0..IdleCap] /\ silent' \in [Task -> 0..(Cap + IdleCap + 1)]
      BY <1>1, <2>1 DEF IInv, TypeOK
    <2>3. TypeOK'
      BY <1>1, <2>1, <2>2 DEF IInv, TypeOK
    <2>4. Held' /\ DatedToTurn'
      BY <2>1 DEF IInv, Held, Live, DatedToTurn
    <2>5. Fresh'
      BY <2>1 DEF IInv, TypeOK, Fresh
    <2>6. Bounded'
      <3>1. \A u \in Task \ {t} : wait'[u] = wait[u] /\ silent'[u] = silent[u]
        BY <2>1 DEF IInv, TypeOK
      <3>2. wait'[t] = 0 /\ silent'[t] = 0 /\ age[t] \in Nat
        BY <2>1 DEF IInv, TypeOK
      <3> QED
        BY <2>1, <3>1, <3>2 DEF IInv, Bounded
    <2> QED
      BY <2>1, <2>3, <2>4, <2>5, <2>6 DEF IInv, FedIsAlive, LeakHeals
  <1> QED
    BY <1>2, <1>3

(* The watcher, the snapshot and the idle cap look at the file.            *)
LEMMA LooksStep ==
  ASSUME IInv, Watches \/ Probes \/ \E t \in Task : Gates(t)
  PROVE  IInv'
  <1> USE Limits
  <1>1. Fed
    BY DEF Watches, Probes, Gates
  <1>2. /\ idle' \in 0..(Ttl + 1) /\ turnAge' = turnAge /\ observed' \in BOOLEAN
        /\ file' \in {"none", "seen", "newer"}
        /\ idle' <= idle
        /\ file' # "newer" => file # "newer" \/ idle' = 0
    BY <1>1, FedKeeps
  <1>3. wronged' = {}
    BY <1>1, VerdictIsRight DEF Watches, Probes, Gates, IInv, FedIsAlive
  <1>4. UNCHANGED <<flavour, context, scopes, watchers, quiet, age, armed, overlaid, declined>>
    BY DEF Watches, Probes, Gates, judged
  <1>5. Fresh' /\ DatedToTurn'
    BY <1>2, <1>4 DEF IInv, TypeOK, Fresh, DatedToTurn
  <1>6. CASE Watches \/ Probes
    <2>1. UNCHANGED <<pc, wait, silent>>
      BY <1>6 DEF Watches, Probes, judged
    <2>2. TypeOK'
      BY <1>2, <1>3, <1>4, <2>1 DEF IInv, TypeOK
    <2>3. Held' /\ Bounded'
      BY <1>4, <2>1 DEF IInv, Held, Live, Bounded
    <2> QED
      BY <1>3, <1>4, <1>5, <2>2, <2>3 DEF IInv, FedIsAlive, LeakHeals
  <1>7. ASSUME NEW t \in Task, Gates(t) PROVE IInv'
    <2> USE <1>7
    <2>1. 0 \in 0..IdleCap /\ 0 \in 0..(Cap + IdleCap + 1)
      OBVIOUS
    <2>2. CASE Alive
      <3>1. wait' = [wait EXCEPT ![t] = 0] /\ UNCHANGED <<pc, silent>> /\ turnAge <= Cap
        BY <1>2, <2>2 DEF Gates, Alive
      <3>2. wait' \in [Task -> 0..IdleCap]
        BY <2>1, <3>1 DEF IInv, TypeOK
      <3>3. TypeOK'
        BY <1>2, <1>3, <1>4, <3>1, <3>2 DEF IInv, TypeOK
      <3>4. Held'
        BY <1>4, <3>1 DEF IInv, Held, Live
      <3>5. t \notin overlaid => silent[t] <= Cap
        <4>1. flavour = "native" /\ pc[t] = "turn" /\ t \in armed
          BY DEF Gates, IInv, Held
        <4> QED
          BY <3>1, <4>1 DEF IInv, TypeOK, DatedToTurn, Bounded
      <3>6. Bounded'
        BY <1>4, <3>1, <3>5 DEF IInv, TypeOK, Bounded
      <3> QED
        BY <1>3, <1>4, <1>5, <3>3, <3>4, <3>6 DEF IInv, FedIsAlive, LeakHeals
    <2>3. CASE ~Alive
      <3>1. /\ pc' = [pc EXCEPT ![t] = "leaving"] /\ pc[t] = "turn"
            /\ wait' = [wait EXCEPT ![t] = 0] /\ silent' = [silent EXCEPT ![t] = 0]
        BY <2>3 DEF Gates, TurnOver
      <3>2. wait' \in [Task -> 0..IdleCap] /\ silent' \in [Task -> 0..(Cap + IdleCap + 1)]
        BY <2>1, <3>1 DEF IInv, TypeOK
      <3>3. TypeOK'
        BY <1>2, <1>3, <1>4, <3>1, <3>2 DEF IInv, TypeOK
      <3>4. Held' /\ Bounded'
        BY <1>4, <3>1 DEF IInv, TypeOK, Held, Live, Bounded
      <3> QED
        BY <1>3, <1>4, <1>5, <3>3, <3>4 DEF IInv, FedIsAlive, LeakHeals
    <2> QED
      BY <2>2, <2>3
  <1> QED
    BY <1>6, <1>7

(* A unit of time.                                                         *)
LEMMA TicksStep == IInv /\ Ticks => IInv'
  <1> SUFFICES ASSUME IInv, Ticks PROVE IInv'
    OBVIOUS
  <1> USE Limits DEF Ticks
  <1>1. idle' \in 0..(Ttl + 1) /\ turnAge' \in 0..(Cap + 1) /\ quiet' \in 0..(Ttl + 1)
    BY DEF IInv, TypeOK, AtMost
  <1>2. age' \in [Task -> 0..(Cap + 1)]
    BY DEF IInv, TypeOK, AtMost
  <1>3. wait' \in [Task -> 0..IdleCap]
    BY DEF IInv, TypeOK
  <1>4. silent' \in [Task -> 0..(Cap + IdleCap + 1)]
    BY DEF IInv, TypeOK, AtMost
  <1>5. TypeOK'
    BY <1>1, <1>2, <1>3, <1>4 DEF IInv, TypeOK
  <1>6. Held' /\ FedIsAlive' /\ LeakHeals'
    BY DEF IInv, Held, Live, FedIsAlive, LeakHeals
  <1>7. DatedToTurn'
    BY DEF IInv, TypeOK, DatedToTurn
  <1>8. Fresh'
    <2>1. ASSUME NEW t \in armed, age'[t] <= Cap PROVE idle' <= age'[t]
      <3>1. t \in Task /\ age[t] \in 0..(Cap + 1) /\ age'[t] = AtMost(age[t] + 1, Cap + 1)
        BY DEF IInv, TypeOK
      <3>2. age[t] <= Cap /\ age'[t] = age[t] + 1
        BY <2>1, <3>1 DEF AtMost
      <3>3. idle <= age[t]
        BY <3>2 DEF IInv, Fresh
      <3> QED
        BY <3>1, <3>2, <3>3 DEF IInv, TypeOK, AtMost
    <2>2. ASSUME armed # {}, file # "newer" PROVE idle' <= quiet'
      BY <2>2 DEF IInv, TypeOK, Fresh, AtMost
    <2> QED
      BY <2>1, <2>2 DEF Fresh
  <1>9. Bounded'
    <2> SUFFICES ASSUME NEW t \in Task \ overlaid, flavour = "native", pc[t] = "turn"
                 PROVE  silent'[t] <= Cap + wait'[t] /\ (age'[t] <= Cap => silent'[t] <= age'[t])
      BY DEF Bounded
    <2>1. t \in armed /\ silent[t] <= Cap + wait[t] /\ (age[t] <= Cap => silent[t] <= age[t])
      BY DEF IInv, Held, Bounded
    <2>2. /\ age'[t] = AtMost(age[t] + 1, Cap + 1) /\ wait'[t] = wait[t] + 1
          /\ silent'[t] = AtMost(silent[t] + 1, Cap + IdleCap + 1)
      BY <2>1
    <2>3. age[t] \in 0..(Cap + 1) /\ wait[t] \in 0..IdleCap /\ silent[t] \in 0..(Cap + IdleCap + 1)
      BY DEF IInv, TypeOK
    <2> QED
      BY <2>1, <2>2, <2>3 DEF AtMost
  <1> QED
    BY <1>5, <1>6, <1>7, <1>8, <1>9 DEF IInv

(* The invariant is inductive.                                             *)
LEMMA Inductive == IInv /\ [Next]_vars => IInv'
  <1> SUFFICES ASSUME IInv, [Next]_vars PROVE IInv'
    OBVIOUS
  <1>1. CASE UNCHANGED vars
    BY <1>1 DEF vars, lease, judged, IInv, TypeOK, Held, Live, DatedToTurn, Fresh, Bounded,
                FedIsAlive, LeakHeals
  <1>2. CASE Next
    BY <1>2, DeliversStep, NestsStep, RunsNativeStep, EndsStep, ActivityStep, LooksStep, TicksStep
       DEF Next
  <1> QED
    BY <1>1, <1>2

(* The invariant holds of the lease.                                       *)
THEOREM Safe == Spec => []IInv
  <1> QED
    BY InitIInv, Inductive, PTL DEF Spec

(* The types of the lease and the registry: a task holds at most the two   *)
(* scopes it can enter, and no wait is longer than the idle cap.           *)
THEOREM LeaseTypeCorrect == Spec => []TypeOK
  <1>1. IInv => TypeOK
    BY DEF IInv
  <1> QED
    BY Safe, <1>1, PTL

(* The lease is dated to the turn it was armed for, its cap is final, and  *)
(* within the cap activity keeps it alive, whatever the limits and however *)
(* deliveries overlap (turn_lease.py:281-345, 562-640).                    *)
THEOREM LeaseTellsTruth == Spec => []LeaseIsTrue
  <1>1. IInv => LeaseIsTrue
    <2> SUFFICES ASSUME IInv PROVE CapIsFinal
      BY DEF IInv, LeaseIsTrue
    <2> SUFFICES ASSUME NEW t \in Task \ overlaid, flavour = "native", pc[t] = "turn"
                 PROVE  silent[t] <= Cap + IdleCap
      BY DEF CapIsFinal
    <2>1. silent[t] <= Cap + wait[t] /\ wait[t] \in 0..IdleCap /\ silent[t] \in Nat
      BY Limits DEF IInv, TypeOK, Bounded
    <2> QED
      BY <2>1, Limits
  <1> QED
    BY Safe, <1>1, PTL

(* A scope that is abandoned never blocks the arming of a later one        *)
(* (turn_lease.py:562-600).                                                *)
THEOREM LeaksHeal == Spec => []LeakHeals
  <1>1. IInv => LeakHeals
    BY DEF IInv
  <1> QED
    BY Safe, <1>1, PTL
=============================================================================
