------------------------------ MODULE DaemonProofs ------------------------------
(***************************************************************************)
(* Proofs about the daemons of plugins (DaemonSupervisor) and about the    *)
(* grid and the engine of the schedules (Schedules), which is one of them. *)
(*                                                                         *)
(* A daemon and its child, for any number of plugins and daemons, any      *)
(* breaker and any bound on the tokens: IInv adds to the property where a  *)
(* monitor stands when its count, its child or its token is what it is.    *)
(*                                                                         *)
(* What is the user's stays so in whichever root he did it, and the engine *)
(* takes runs for what they were, for any names, template, limits and      *)
(* number of changes of root.  The two properties are not inductive:       *)
(* ScheduleIInv adds how they come about.  Each deletion has its tombstone *)
(* or lost it for a cause (Buried), a tombstone and an entry of the user's *)
(* are of a name the user touched in that root (Touched), and a root       *)
(* without a grid has nothing of the user's (Roomed), so that a copy of    *)
(* the legacy grid overwrites nothing.                                     *)
(***************************************************************************)
EXTENDS DaemonSupervisor, Schedules, TLAPS

(***************************************************************************)
(* The daemons.                                                            *)
(***************************************************************************)
(* A daemon at the limit of its breaker has given up.                      *)
Counted == \A d \in Daemon : fast[d] = MaxFast => monitor[d] = "failed"

(* What is registered is watched, and what stop() has taken is not spawned *)
(* again.                                                                  *)
Watched ==
  /\ \A d \in procs : monitor[d] = "watch"
  /\ \A d \in doomed : monitor[d] \in {"watch", "done", "failed"}

(* stop() holds children only while it reaps, and joins what it has left.  *)
Ended ==
  /\ doomed # {} => stop = "reap"
  /\ stop \in {"lanes", "exited"} => \A d \in Daemon : Joined(d)

(* A spec has the token of its plugin's socket or none, and only a plugin  *)
(* without a socket is bound.                                              *)
Addressed ==
  /\ \A d \in Daemon : env[d] # 0 => lane[Owner[d]] = env[d]
  /\ \A p \in binding : lane[p] = 0

IInv == TypeOK /\ ChildrenAreKept /\ Counted /\ Watched /\ Ended /\ Addressed

(* It holds at boot.                                                       *)
LEMMA InitIInv == Init => IInv
  <1> SUFFICES ASSUME Init PROVE IInv
    OBVIOUS
  <1>1. TypeOK
    <2>1. 0 \in 0..MaxFast
      BY DaemonAssumption
    <2>2. fast \in [Daemon -> 0..MaxFast] /\ lane \in [Plugin -> Nat] /\ env \in [Daemon -> Nat]
      BY <2>1 DEF Init
    <2>3. token \in [Daemon -> Nat] /\ issued \in Nat /\ native \in BOOLEAN /\ created \in BOOLEAN
      BY DEF Init
    <2>4. monitor \in [Daemon -> Watches] /\ kid \in [Daemon -> {"none", "alive", "termed", "dead"}]
      BY DEF Init, Watches
    <2> QED
      BY <2>2, <2>3, <2>4 DEF Init, TypeOK
  <1>2. ChildrenAreKept
    BY DEF Init, ChildrenAreKept, LiveIsOwned, OneReaper, TokenIsServed, SurvivorHasCause, Alive
  <1>3. Counted /\ Watched /\ Ended /\ Addressed
    BY DaemonAssumption DEF Init, Counted, Watched, Ended, Addressed
  <1> QED
    BY <1>1, <1>2, <1>3 DEF IInv

(* The event loop: plugins come and go, daemons are discovered.            *)
LEMMA LoopStep == IInv /\ ((\E p \in Plugin : Installs(p)) \/ Discovers) => IInv'
  <1> SUFFICES ASSUME IInv, (\E p \in Plugin : Installs(p)) \/ Discovers PROVE IInv'
    OBVIOUS
  <1>1. /\ UNCHANGED <<created, specs, lane, env, issued>>
        /\ UNCHANGED <<stop, doomed, monitor, procs, kid, token, fast>>
    BY DEF Installs, Discovers, child
  <1>2. installed' \subseteq Daemon /\ native' \in BOOLEAN /\ fresh' \subseteq Daemon
    BY DEF IInv, TypeOK, Installs, Discovers
  <1>3. binding' \subseteq Plugin /\ \A p \in binding' : lane'[p] = 0
    <2>1. CASE Discovers
      <3>1. Unbound(specs \cup fresh') \subseteq Plugin
        BY <1>2, DaemonAssumption DEF IInv, TypeOK, Unbound
      <3>2. \A p \in Unbound(specs \cup fresh') : lane[p] = 0
        BY DEF Unbound
      <3> QED
        BY <1>1, <2>1, <3>1, <3>2 DEF Discovers
    <2>2. CASE \E p \in Plugin : Installs(p)
      BY <1>1, <2>2 DEF IInv, TypeOK, Addressed, Installs
    <2> QED
      BY <2>1, <2>2
  <1>4. TypeOK'
    BY <1>1, <1>2, <1>3 DEF IInv, TypeOK
  <1>5. ChildrenAreKept'
    BY <1>1 DEF IInv, ChildrenAreKept, LiveIsOwned, OneReaper, TokenIsServed, SurvivorHasCause, Alive
  <1>6. Counted' /\ Watched' /\ Ended' /\ Addressed'
    BY <1>1, <1>3 DEF IInv, Counted, Watched, Ended, Joined, Addressed
  <1> QED
    BY <1>4, <1>5, <1>6 DEF IInv

(* The sockets of an ensure_daemons are bound, or are rolled back.         *)
LEMMA BindStep == IInv /\ (Binds \/ BindFails) => IInv'
  <1> SUFFICES ASSUME IInv, Binds \/ BindFails PROVE IInv'
    OBVIOUS
  <1>1. /\ stop = "no" /\ created' = TRUE /\ fresh' = {} /\ binding' = {}
        /\ specs' = specs \cup fresh
        /\ monitor' = [d \in Daemon |-> IF d \in fresh /\ monitor[d] = "none"
                                        THEN "top" ELSE monitor[d]]
        /\ UNCHANGED <<installed, native, stop, doomed, procs, kid, token, fast>>
    BY DEF Binds, BindFails, Supervises, child
  <1>2. \A p \in Plugin : lane'[p] \in Nat /\ (p \notin binding => lane'[p] = lane[p])
    BY DaemonAssumption DEF IInv, TypeOK, Binds, BindFails
  <1>3. lane' \in [Plugin -> Nat] /\ issued' \in Nat
    BY DaemonAssumption DEF IInv, TypeOK, Binds, BindFails
  <1>4. env' \in [Daemon -> Nat] /\ \A d \in Daemon : env'[d] # 0 => lane'[Owner[d]] = env'[d]
    <2>1. CASE Binds
      <3>1. env' = [d \in Daemon |-> IF d \in specs \cup fresh THEN lane'[Owner[d]] ELSE env[d]]
        BY <2>1 DEF Binds
      <3>2. ASSUME NEW d \in Daemon, d \notin specs \cup fresh, env[d] # 0
            PROVE  lane'[Owner[d]] = env[d]
        <4>1. lane[Owner[d]] = env[d] /\ Owner[d] \in Plugin
          BY <3>2, DaemonAssumption DEF IInv, Addressed
        <4>2. Owner[d] \notin binding
          BY <3>2, <4>1 DEF IInv, Addressed
        <4> QED
          BY <1>2, <4>1, <4>2
      <3> QED
        BY <1>3, <3>1, <3>2, DaemonAssumption DEF IInv, TypeOK
    <2>2. CASE BindFails
      <3>1. env' = [d \in Daemon |-> IF d \in Scrubbed THEN 0 ELSE env[d]]
        BY <2>2 DEF BindFails
      <3>2. ASSUME NEW d \in Daemon, env[d] # 0 PROVE lane'[Owner[d]] = env[d]
        <4>1. lane[Owner[d]] = env[d] /\ Owner[d] \in Plugin
          BY <3>2, DaemonAssumption DEF IInv, Addressed
        <4>2. Owner[d] \notin binding
          BY <3>2, <4>1 DEF IInv, Addressed
        <4> QED
          BY <1>2, <4>1, <4>2
      <3> QED
        BY <3>1, <3>2 DEF IInv, TypeOK
    <2> QED
      BY <2>1, <2>2
  <1>5. TypeOK'
    BY <1>1, <1>3, <1>4 DEF IInv, TypeOK, Watches
  <1>6. \A d \in Daemon : monitor'[d] # monitor[d] => monitor[d] = "none" /\ monitor'[d] = "top"
    BY <1>1 DEF IInv, TypeOK
  <1>7. LiveIsOwned' /\ OneReaper'
    BY <1>1, <1>6 DEF IInv, TypeOK, ChildrenAreKept, LiveIsOwned, OneReaper, Alive
  <1>8. TokenIsServed'
    <2> SUFFICES ASSUME NEW d \in Daemon, Alive(d), token[d] # 0
                 PROVE  lane'[Owner[d]] = token[d]
      BY <1>1 DEF TokenIsServed, Alive
    <2>1. lane[Owner[d]] = token[d] /\ Owner[d] \in Plugin
      BY <1>1, DaemonAssumption DEF IInv, ChildrenAreKept, TokenIsServed
    <2>2. Owner[d] \notin binding
      BY <2>1 DEF IInv, Addressed
    <2> QED
      BY <1>2, <2>1, <2>2
  <1>9. SurvivorHasCause' /\ Ended'
    BY <1>1 DEF IInv, SurvivorHasCause, Ended
  <1>10. Counted' /\ Watched'
    BY <1>1, <1>6 DEF IInv, TypeOK, Counted, Watched
  <1>11. Addressed'
    BY <1>1, <1>4 DEF Addressed
  <1> QED
    BY <1>5, <1>7, <1>8, <1>9, <1>10, <1>11 DEF IInv, ChildrenAreKept

(* The monitor of a daemon, and the end of its child.                      *)
LEMMA MonitorKeeps ==
  ASSUME IInv, NEW d \in Daemon, MonitorStep(d) \/ KidExits(d)
  PROVE  IInv'
  <1> USE DEF IInv
  <1>1. UNCHANGED <<installed, native, created, fresh, binding, specs, lane, env, issued, stop, doomed>>
    BY DEF MonitorStep, KidExits, Starts, SpawnFails, Spawns, Registers, SeesExit, SeesStop,
           EndsStraggler, KillsStraggler, BackedOff, loop
  <1>2. /\ \A e \in Daemon \ {d} : monitor'[e] = monitor[e] /\ kid'[e] = kid[e]
                                   /\ token'[e] = token[e] /\ fast'[e] = fast[e]
        /\ \A e \in Daemon \ {d} : e \in procs' <=> e \in procs
    BY DEF TypeOK, MonitorStep, KidExits, Starts, SpawnFails, Spawns, Registers, SeesExit, SeesStop,
           EndsStraggler, KillsStraggler, BackedOff, Judges, Goes, KidIs, child
  <1>3. /\ monitor' \in [Daemon -> Watches] /\ procs' \subseteq Daemon
        /\ kid' \in [Daemon -> {"none", "alive", "termed", "dead"}]
        /\ token' \in [Daemon -> Nat]
        /\ fast' \in [Daemon -> 0..MaxFast]
        /\ fast'[d] = MaxFast => monitor'[d] = "failed"
    <2>1. CASE SpawnFails(d) \/ SeesExit(d)
      <3>1. PICK n \in {0, fast[d] + 1} : Judges(d, n)
        BY <2>1 DEF SpawnFails, SeesExit
      <3>2. fast[d] \in 0..MaxFast /\ fast[d] # MaxFast
        BY <2>1 DEF TypeOK, Counted, SpawnFails, SeesExit
      <3>3. n \in 0..MaxFast
        BY <3>2, DaemonAssumption
      <3>4. /\ monitor' \in [Daemon -> Watches] /\ fast' \in [Daemon -> 0..MaxFast]
            /\ fast'[d] = n /\ (n = MaxFast => monitor'[d] = "failed")
        BY <3>1, <3>3 DEF TypeOK, Judges, Goes, Watches
      <3> QED
        BY <2>1, <3>4 DEF TypeOK, SpawnFails, SeesExit, child
    <2>2. CASE Starts(d) \/ Spawns(d) \/ Registers(d) \/ SeesStop(d) \/ EndsStraggler(d)
               \/ KillsStraggler(d) \/ BackedOff(d) \/ KidExits(d)
      <3>1. monitor' \in [Daemon -> Watches] /\ procs' \subseteq Daemon
        BY <2>2 DEF TypeOK, Watches, Goes, Starts, Spawns, Registers, SeesStop, EndsStraggler,
                    KillsStraggler, BackedOff, KidExits
      <3>2. kid' \in [Daemon -> {"none", "alive", "termed", "dead"}] /\ token' \in [Daemon -> Nat]
        BY <2>2 DEF TypeOK, KidIs, Starts, Spawns, Registers, SeesStop, EndsStraggler,
                    KillsStraggler, BackedOff, KidExits, child
      <3>3. fast' = fast
        BY <2>2 DEF Starts, Spawns, Registers, SeesStop, EndsStraggler,
                    KillsStraggler, BackedOff, KidExits
      <3>4. monitor[d] = "failed" => monitor'[d] = "failed"
        BY <2>2 DEF TypeOK, Starts, Spawns, Registers, SeesStop, EndsStraggler,
                    KillsStraggler, BackedOff, KidExits
      <3> QED
        BY <3>1, <3>2, <3>3, <3>4 DEF TypeOK, Counted
    <2> QED
      BY <2>1, <2>2 DEF MonitorStep
  <1>4. TypeOK' /\ Counted'
    BY <1>1, <1>2, <1>3 DEF TypeOK, Counted
  <1>5. /\ Alive(d)' => \/ monitor'[d] \in {"register", "straggler", "kill"}
                        \/ monitor'[d] = "watch" /\ d \in procs'
                        \/ d \in doomed
        /\ d \in procs' => monitor'[d] = "watch"
        /\ d \in doomed => d \notin procs' /\ monitor'[d] \in {"watch", "done", "failed"}
    <2>1. CASE SpawnFails(d) \/ SeesExit(d)
      <3>1. PICK n \in {0, fast[d] + 1} : Judges(d, n)
        BY <2>1 DEF SpawnFails, SeesExit
      <3>2. d \in doomed => stop # "no"
        BY DEF Ended
      <3>3. fast[d] \in 0..MaxFast /\ fast[d] # MaxFast
        BY <2>1 DEF TypeOK, Counted, SpawnFails, SeesExit
      <3>4. n \in 0..MaxFast
        BY <3>3, DaemonAssumption
      <3>5. monitor'[d] \in {"failed", "done", "backoff"} /\ (stop # "no" => monitor'[d] # "backoff")
        BY <3>1, <3>4, DaemonAssumption DEF TypeOK, Judges, Goes
      <3>6. ~Alive(d) /\ kid' = kid /\ d \notin procs'
        BY <2>1 DEF SpawnFails, SeesExit, Alive, ChildrenAreKept, LiveIsOwned, Watched, child
      <3> QED
        BY <3>2, <3>5, <3>6 DEF Alive
    <2>2. CASE Starts(d) \/ BackedOff(d)
      <3>1. monitor[d] \in {"top", "backoff"} /\ kid' = kid /\ procs' = procs
        BY <2>2 DEF Starts, BackedOff, child
      <3> QED
        BY <3>1 DEF ChildrenAreKept, LiveIsOwned, Watched, Alive
    <2>3. CASE Spawns(d)
      BY <2>3 DEF TypeOK, Spawns, Goes, KidIs, Watched
    <2>4. CASE Registers(d)
      BY <2>4 DEF TypeOK, Registers, Goes, Watched, Alive
    <2>5. CASE SeesStop(d)
      BY <2>5 DEF TypeOK, SeesStop, Goes, Watched, Alive, ChildrenAreKept, LiveIsOwned, OneReaper, child
    <2>6. CASE EndsStraggler(d)
      BY <2>6 DEF TypeOK, EndsStraggler, Goes, KidIs, Watched, Alive
    <2>7. CASE KillsStraggler(d)
      BY <2>7 DEF TypeOK, KillsStraggler, Goes, KidIs, Watched, Alive
    <2>8. CASE KidExits(d)
      BY <2>8 DEF TypeOK, KidExits, KidIs, Watched, Alive, ChildrenAreKept, OneReaper
    <2> QED
      BY <2>1, <2>2, <2>3, <2>4, <2>5, <2>6, <2>7, <2>8 DEF MonitorStep
  <1>6. LiveIsOwned' /\ OneReaper' /\ Watched'
    BY <1>1, <1>2, <1>3, <1>5 DEF TypeOK, ChildrenAreKept, LiveIsOwned, OneReaper, Watched, Alive
  <1>7. TokenIsServed'
    <2>1. Alive(d)' /\ token'[d] # 0 /\ stop # "exited" => lane[Owner[d]] = token'[d]
      <3>1. CASE Spawns(d)
        BY <3>1 DEF TypeOK, Spawns, Addressed
      <3>2. CASE ~Spawns(d)
        <4>1. token' = token /\ (Alive(d)' => Alive(d))
          BY <3>2 DEF TypeOK, MonitorStep, KidExits, Starts, SpawnFails, Registers, SeesExit, SeesStop,
                      EndsStraggler, KillsStraggler, BackedOff, KidIs, Alive, child
        <4> QED
          BY <4>1 DEF ChildrenAreKept, TokenIsServed
      <3> QED
        BY <3>1, <3>2
    <2> QED
      BY <1>1, <1>2, <2>1 DEF ChildrenAreKept, TokenIsServed, Alive
  <1>8. SurvivorHasCause' /\ Ended'
    <2>1. CASE KidExits(d)
      BY <1>1, <2>1 DEF TypeOK, KidExits, KidIs, ChildrenAreKept, SurvivorHasCause, Ended, Joined, Alive
    <2>2. CASE MonitorStep(d)
      <3>1. stop # "exited" /\ (stop = "lanes" => Joined(d))
        BY <2>2 DEF Ended, MonitorStep, Starts, SpawnFails, Spawns, Registers, SeesExit, SeesStop,
                    EndsStraggler, KillsStraggler, BackedOff, Running
      <3>2. stop = "lanes" => monitor'[d] = "done"
        BY <2>2, <3>1 DEF TypeOK, Joined, MonitorStep, Starts, SpawnFails, Spawns, Registers,
                    SeesExit, SeesStop, EndsStraggler, KillsStraggler, BackedOff, Goes
      <3> QED
        BY <1>1, <1>2, <3>1, <3>2 DEF SurvivorHasCause, Ended, Joined
    <2> QED
      BY <2>1, <2>2
  <1>9. Addressed'
    BY <1>1 DEF Addressed
  <1> QED
    BY <1>4, <1>6, <1>7, <1>8, <1>9 DEF ChildrenAreKept

(* The shutdown.                                                           *)
LEMMA StopKeeps == IInv /\ (StopSets \/ StopStep) => IInv'
  <1> SUFFICES ASSUME IInv, StopSets \/ StopStep PROVE IInv'
    OBVIOUS
  <1> USE DEF IInv
  <1>1. CASE StopSets
    BY <1>1 DEF StopSets, TypeOK, ChildrenAreKept, LiveIsOwned, OneReaper, TokenIsServed,
                SurvivorHasCause, Alive, Counted, Watched, Ended, Addressed, child
  <1>2. CASE StopTakes
    <2> USE <1>2 DEF StopTakes, loop
    <2>1. TypeOK'
      BY DEF TypeOK
    <2>2. \A d \in Daemon : Alive(d)' <=> Alive(d)
      BY DEF TypeOK, Alive
    <2>3. LiveIsOwned'
      BY <2>2 DEF ChildrenAreKept, LiveIsOwned, Ended
    <2>4. OneReaper'
      BY DEF Watched, OneReaper
    <2>5. TokenIsServed' /\ SurvivorHasCause'
      BY <2>2 DEF ChildrenAreKept, TokenIsServed, SurvivorHasCause
    <2>6. Counted' /\ Watched' /\ Ended' /\ Addressed'
      BY DEF TypeOK, Counted, Watched, Ended, Addressed
    <2> QED
      BY <2>1, <2>3, <2>4, <2>5, <2>6 DEF ChildrenAreKept
  <1>3. CASE StopJoins
    BY <1>3 DEF StopJoins, TypeOK, ChildrenAreKept, LiveIsOwned, OneReaper, TokenIsServed,
                SurvivorHasCause, Alive, Counted, Watched, Ended, Joined, Addressed, loop, child
  <1>4. CASE Exits
    <2> USE <1>4 DEF Exits, child
    <2>1. TypeOK'
      BY DEF TypeOK
    <2>2. LiveIsOwned' /\ OneReaper' /\ TokenIsServed'
      BY DEF ChildrenAreKept, LiveIsOwned, OneReaper, TokenIsServed, Alive
    <2>3. SurvivorHasCause'
      BY DEF ChildrenAreKept, LiveIsOwned, SurvivorHasCause, Alive, Ended, Joined
    <2>4. Counted' /\ Watched' /\ Ended' /\ Addressed'
      BY DEF TypeOK, Counted, Watched, Ended, Joined, Addressed
    <2> QED
      BY <2>1, <2>2, <2>3, <2>4 DEF ChildrenAreKept
  <1>5. ASSUME NEW d \in Daemon, StopReaps(d) PROVE IInv'
    <2> USE <1>5 DEF StopReaps, KidIs, loop
    <2>1. TypeOK'
      BY DEF TypeOK
    <2>2. ~Alive(d)' /\ \A e \in Daemon \ {d} : Alive(e)' <=> Alive(e)
      BY DEF TypeOK, Alive
    <2>3. LiveIsOwned' /\ OneReaper'
      BY <2>2 DEF ChildrenAreKept, LiveIsOwned, OneReaper, TypeOK
    <2>4. TokenIsServed' /\ SurvivorHasCause'
      BY <2>2 DEF ChildrenAreKept, TokenIsServed, SurvivorHasCause
    <2>5. Counted' /\ Watched' /\ Ended' /\ Addressed'
      BY DEF TypeOK, Counted, Watched, Ended, Joined, Addressed
    <2> QED
      BY <2>1, <2>3, <2>4, <2>5 DEF ChildrenAreKept
  <1> QED
    BY <1>1, <1>2, <1>3, <1>4, <1>5 DEF StopStep

(* The invariant is inductive.                                             *)
LEMMA Inductive == IInv /\ [Next]_vars => IInv'
  <1> SUFFICES ASSUME IInv, [Next]_vars PROVE IInv'
    OBVIOUS
  <1>1. CASE UNCHANGED vars
    BY <1>1 DEF vars, loop, child, IInv, TypeOK, ChildrenAreKept, LiveIsOwned, OneReaper,
                TokenIsServed, SurvivorHasCause, Alive, Counted, Watched, Ended, Joined, Addressed
  <1>2. CASE (\E p \in Plugin : Installs(p)) \/ EnsureStep
    BY <1>2, LoopStep, BindStep DEF EnsureStep
  <1>3. CASE \E d \in Daemon : MonitorStep(d) \/ KidExits(d)
    BY <1>3, MonitorKeeps
  <1>4. CASE StopSets \/ StopStep
    BY <1>4, StopKeeps
  <1> QED
    BY <1>1, <1>2, <1>3, <1>4 DEF Next

(* The invariant holds of the daemons.                                     *)
THEOREM Safe == Spec => []IInv
  <1> QED
    BY InitIInv, Inductive, PTL DEF Spec

(* The types of the supervisor's state, and with them that the failures of *)
(* a daemon never pass its breaker.                                        *)
THEOREM DaemonsTypeCorrect == Spec => []TypeOK
  <1>1. IInv => TypeOK
    BY DEF IInv
  <1> QED
    BY Safe, <1>1, PTL

(* Every living child has exactly one owner that will end it, and a socket *)
(* that answers to the token it was given, however spawns, reloads and the *)
(* shutdown interleave; what survives the process does so for the one      *)
(* cause (plugin_daemons.py:391-409, 526-553, channel_events.py:562-649).  *)
THEOREM ChildrenHaveOwners == Spec => []ChildrenAreKept
  <1>1. IInv => ChildrenAreKept
    BY DEF IInv
  <1> QED
    BY Safe, <1>1, PTL

(***************************************************************************)
(* The schedules.                                                          *)
(***************************************************************************)
(* Every deletion left a tombstone, or lost it for a named cause.          *)
Lost(r) == torn[r] \cup (IF r = "durable" THEN left ELSE {})
Buried == \A r \in Roots : deleted[r] \subseteq tombs[r] \cup Lost(r)

(* Tombstones and entries of the user's are his doing.                     *)
Touched ==
  \A r \in Roots :
    /\ tombs[r] \subseteq mine[r] \cup deleted[r]
    /\ \A n \in Name : grid[r][n].source = "runtime" => n \in mine[r] \cup deleted[r]

(* A root without a grid has nothing of the user's, and the legacy root is *)
(* in use beside a durable grid only once something has lapsed.            *)
Roomed ==
  /\ \A r \in Roots \ found : tombs[r] = {} /\ mine[r] = {} /\ deleted[r] = {} /\ torn[r] = {}
  /\ root = "legacy" /\ ~lapsed => "durable" \notin found

ScheduleIInv == ScheduleTypeOK /\ Buried /\ Touched /\ Roomed /\ UserOwnsHis /\ EngineIsFair

(* The limits are positive numbers.                                        *)
LEMMA Limits == /\ Template \subseteq Name
                /\ DisableAfter \in Nat \ {0} /\ MaxRelease \in Nat \ {0} /\ MaxMoves \in Nat
  BY ScheduleAssumption

(* The smaller of a number and a limit.                                    *)
LEMMA AtMostBounds ==
  ASSUME NEW n \in Nat, NEW limit \in Nat
  PROVE  /\ AtMost(n, limit) \in 0..limit
         /\ AtMost(n, limit) <= n
         /\ n <= limit => AtMost(n, limit) = n
  BY DEF AtMost

(* No entry equals the absent one.                                         *)
LEMMA EntryIsPresent ==
  ASSUME NEW e \in Entry
  PROVE  e # Absent /\ e.source \in {"template", "runtime", "untagged"}
  BY DEF Entry, Absent

(* What the type invariant says of one root.                               *)
LEMMA TypedAt ==
  ASSUME ScheduleTypeOK, NEW r \in Roots
  PROVE  /\ grid[r] \in [Name -> Entry \cup {Absent}]
         /\ errors[r] \in [Name -> 0..(DisableAfter + 1)]
         /\ tombs[r] \subseteq Name /\ mine[r] \subseteq Name /\ deleted[r] \subseteq Name
         /\ torn[r] \subseteq Name /\ missed[r] \subseteq Name
  BY DEF ScheduleTypeOK, NameSets

(* What the seeding puts in place.                                         *)
LEMMA UpsertedEntries ==
  ASSUME ScheduleTypeOK, NEW delivered
  PROVE  /\ Upserted(delivered) \in [Name -> Entry \cup {Absent}]
         /\ \A n \in Name :
              \/ Upserted(delivered)[n] = grid[root][n]
              \/ /\ n \in delivered \ tombs[root] /\ grid[root][n].source \in {"none", "template"}
                 /\ Upserted(delivered)[n] =
                      [source |-> "template", text |-> release, enabled |-> TRUE]
  <1>1. release \in 0..MaxRelease
    BY Limits DEF ScheduleTypeOK
  <1>2. [source |-> "template", text |-> release, enabled |-> TRUE] \in Entry
    BY <1>1 DEF Entry
  <1>3. grid[root] \in [Name -> Entry \cup {Absent}]
    BY TypedAt DEF ScheduleTypeOK
  <1> QED
    BY <1>2, <1>3 DEF Upserted

-----------------------------------------------------------------------------
(* The invariant holds in empty grids.                                     *)
LEMMA SchedulesInit == ScheduleInit => ScheduleIInv
  <1> SUFFICES ASSUME ScheduleInit PROVE ScheduleIInv
    OBVIOUS
  <1>1. ScheduleTypeOK
    <2>1. /\ 0 \in 0..(DisableAfter + 1) /\ 0 \in 0..DisableAfter /\ 1 \in 1..MaxRelease
          /\ 0 \in 0..MaxMoves
      BY Limits
    <2>2. NoEntries \in [Name -> Entry \cup {Absent}] /\ NoNames \in NameSets
      BY DEF NoEntries, NoNames, NameSets
    <2>3. NoStreaks \in [Name -> 0..(DisableAfter + 1)] /\ NoStreaks \in [Name -> 0..DisableAfter]
      BY <2>1 DEF NoStreaks
    <2> QED
      BY <2>1, <2>2, <2>3 DEF ScheduleInit, ScheduleTypeOK, Roots
  <1>2. Buried /\ Touched /\ Roomed
    BY DEF ScheduleInit, NoEntries, NoNames, Absent, Buried, Touched, Roomed, Roots
  <1>3. UserOwnsHis
    BY DEF ScheduleInit, NoNames, Roots, UserOwnsHis, EditsSurvive, ReturnHasCause
  <1>4. StreakIsReal
    BY Limits DEF ScheduleInit, NoStreaks, StreakIsReal, AtMost
  <1>5. ReleaseArrives
    BY DEF ScheduleInit, ReleaseArrives
  <1> QED
    BY <1>1, <1>2, <1>3, <1>4, <1>5 DEF ScheduleIInv, EngineIsFair

(* What a call of the user does to the root in use and to the ghosts.      *)
LEMMA CallsAct ==
  ASSUME ScheduleTypeOK, NEW n \in Name,
         Creates(n) \/ Deletes(n) \/ \E enabled \in BOOLEAN : Updates(n, enabled)
  PROVE  /\ \E e \in Entry \cup {Absent} :
              /\ grid' = [grid EXCEPT ![root] = [grid[root] EXCEPT ![n] = e]]
              /\ \/ e = Absent /\ mine' = Drop(mine, n) /\ deleted' = Add(deleted, n)
                 \/ /\ e.source = "runtime" /\ e.text = 0
                    /\ mine' = Add(mine, n) /\ deleted' = Drop(deleted, n)
         /\ tombs' \in {tombs, Add(tombs, n), Drop(tombs, n)}
         /\ torn' \in {Add(torn, n), Drop(torn, n)}
         /\ left' = IF root = "durable" THEN left \ {n} ELSE left
         /\ n \in deleted'[root] => n \in tombs'[root] \/ n \in torn'[root]
         /\ found' = found \cup {root} /\ spoiled' = spoiled
         /\ UNCHANGED <<streaks, process, seeded, flying, lapsed>>
  <1>1. \A enabled \in BOOLEAN : [source |-> "runtime", text |-> 0, enabled |-> enabled] \in Entry
    BY Limits DEF Entry
  <1>2. root \in Roots /\ deleted \in [Roots -> SUBSET Name] /\ torn \in [Roots -> SUBSET Name]
    BY DEF ScheduleTypeOK, NameSets
  <1>3. CASE Creates(n) \/ \E enabled \in BOOLEAN : Updates(n, enabled)
    <2>1. PICK enabled \in BOOLEAN :
            Writes([grid[root] EXCEPT ![n] =
                      [source |-> "runtime", text |-> 0, enabled |-> enabled]])
      BY <1>3 DEF Creates, Updates
    <2> DEFINE e == [source |-> "runtime", text |-> 0, enabled |-> enabled]
    <2>2. e \in Entry /\ e.source = "runtime" /\ e.text = 0
      BY <1>1
    <2>3. /\ grid' = [grid EXCEPT ![root] = [grid[root] EXCEPT ![n] = e]]
          /\ found' = found \cup {root} /\ spoiled' = spoiled
      BY <2>1 DEF Writes
    <2>4. /\ Owns(n) /\ tombs' \in {tombs, Drop(tombs, n)}
          /\ UNCHANGED <<streaks, process, seeded, flying, lapsed>>
      BY <1>3 DEF Creates, Updates
    <2>5. n \notin deleted'[root]
      BY <1>2, <2>4 DEF Owns, Drop
    <2> HIDE DEF e
    <2> QED
      BY <2>2, <2>3, <2>4, <2>5 DEF Owns
  <1>4. CASE Deletes(n)
    BY <1>2, <1>4 DEF Deletes, Writes, Add, Drop
  <1> QED
    BY <1>3, <1>4

(* The calls of the user.                                                  *)
LEMMA CallsStep == ScheduleIInv /\ Calls => ScheduleIInv'
  <1> SUFFICES ASSUME ScheduleIInv, NEW n \in Name,
                      Creates(n) \/ Deletes(n) \/ \E enabled \in BOOLEAN : Updates(n, enabled)
               PROVE  ScheduleIInv'
    BY DEF Calls
  <1>0. ScheduleTypeOK /\ root \in Roots
    BY DEF ScheduleIInv, ScheduleTypeOK
  <1>1. /\ tombs' \in {tombs, Add(tombs, n), Drop(tombs, n)}
        /\ torn' \in {Add(torn, n), Drop(torn, n)}
        /\ left' = IF root = "durable" THEN left \ {n} ELSE left
        /\ n \in deleted'[root] => n \in tombs'[root] \/ n \in torn'[root]
        /\ found' = found \cup {root} /\ spoiled' = spoiled
        /\ UNCHANGED <<errors, missed, run, root, moves, tried, fed, release, seeded, flying, lapsed>>
    BY <1>0, CallsAct DEF streaks, process
  <1>2. PICK e \in Entry \cup {Absent} :
          /\ grid' = [grid EXCEPT ![root] = [grid[root] EXCEPT ![n] = e]]
          /\ \/ e = Absent /\ mine' = Drop(mine, n) /\ deleted' = Add(deleted, n)
             \/ /\ e.source = "runtime" /\ e.text = 0
                /\ mine' = Add(mine, n) /\ deleted' = Drop(deleted, n)
    BY <1>0, CallsAct
  <1>3. /\ grid' \in [Roots -> [Name -> Entry \cup {Absent}]]
        /\ grid'[root][n] = e
        /\ \A r \in Roots, m \in Name : r # root \/ m # n => grid'[r][m] = grid[r][m]
    <2>1. grid \in [Roots -> [Name -> Entry \cup {Absent}]]
      BY <1>0 DEF ScheduleTypeOK
    <2> DEFINE g == [grid[root] EXCEPT ![n] = e]
    <2>2. g \in [Name -> Entry \cup {Absent}] /\ g[n] = e /\ \A m \in Name \ {n} : g[m] = grid[root][m]
      BY <1>0, <2>1
    <2>3. grid' = [grid EXCEPT ![root] = g]
      BY <1>2
    <2> HIDE DEF g
    <2> QED
      BY <1>0, <2>1, <2>2, <2>3
  <1>4. /\ {tombs', torn', mine', deleted'} \subseteq NameSets
        /\ \A r \in Roots \ {root} : /\ tombs'[r] = tombs[r] /\ torn'[r] = torn[r]
                                    /\ mine'[r] = mine[r] /\ deleted'[r] = deleted[r]
        /\ \A m \in Name \ {n} : /\ (m \in tombs'[root]) = (m \in tombs[root])
                               /\ (m \in torn'[root]) = (m \in torn[root])
                               /\ (m \in mine'[root]) = (m \in mine[root])
                               /\ (m \in deleted'[root]) = (m \in deleted[root])
        /\ \/ e = Absent /\ n \notin mine'[root] /\ n \in deleted'[root]
           \/ e.source = "runtime" /\ e.text = 0 /\ n \in mine'[root] /\ n \notin deleted'[root]
    <2>1. /\ tombs \in [Roots -> SUBSET Name] /\ torn \in [Roots -> SUBSET Name]
          /\ mine \in [Roots -> SUBSET Name] /\ deleted \in [Roots -> SUBSET Name]
      BY <1>0 DEF ScheduleTypeOK, NameSets
    <2>2. ASSUME NEW sets \in [Roots -> SUBSET Name]
          PROVE  /\ Add(sets, n) \in [Roots -> SUBSET Name] /\ Drop(sets, n) \in [Roots -> SUBSET Name]
                 /\ Add(sets, n)[root] = sets[root] \cup {n} /\ Drop(sets, n)[root] = sets[root] \ {n}
                 /\ \A r \in Roots \ {root} : Add(sets, n)[r] = sets[r] /\ Drop(sets, n)[r] = sets[r]
      BY <1>0, <2>2 DEF Add, Drop
    <2>3. \/ tombs' = tombs \/ tombs' = Add(tombs, n) \/ tombs' = Drop(tombs, n)
      BY <1>1
    <2>4. \/ torn' = Add(torn, n) \/ torn' = Drop(torn, n)
      BY <1>1
    <2> QED
      BY <1>0, <1>2, <2>1, <2>2, <2>3, <2>4 DEF NameSets
  <1>5. ScheduleTypeOK'
    BY <1>0, <1>1, <1>3, <1>4 DEF ScheduleTypeOK
  <1>a. \A r \in Roots : /\ tombs[r] \subseteq Name /\ tombs'[r] \subseteq Name
                         /\ mine[r] \subseteq Name /\ mine'[r] \subseteq Name
                         /\ deleted[r] \subseteq Name /\ deleted'[r] \subseteq Name
    BY <1>0, <1>5, TypedAt DEF ScheduleTypeOK, NameSets
  <1>6. Buried'
    <2> SUFFICES ASSUME NEW r \in Roots, NEW m \in deleted'[r]
                 PROVE  m \in tombs'[r] \/ m \in torn'[r] \/ (r = "durable" /\ m \in left')
      BY DEF Buried, Lost
    <2>1. CASE r = root /\ m = n
      BY <1>1, <2>1
    <2>2. CASE r # root \/ m # n
      <3>1. m \in Name /\ m \in deleted[r]
        BY <1>0, <1>a, <1>4, <2>2
      <3>2. m \in tombs[r] \/ m \in torn[r] \/ (r = "durable" /\ m \in left)
        BY <3>1 DEF ScheduleIInv, Buried, Lost
      <3>3. r = "durable" /\ m \in left => m \in left'
        BY <1>1, <2>2
      <3> QED
        BY <1>0, <1>4, <2>2, <3>1, <3>2, <3>3
    <2> QED
      BY <2>1, <2>2
  <1>7. Touched'
    <2>1. ASSUME NEW r \in Roots, NEW m \in tombs'[r]
          PROVE  m \in mine'[r] \cup deleted'[r]
      <3>1. m \in Name /\ (r # root \/ m # n => m \in tombs[r])
        BY <1>a, <1>4, <2>1
      <3>2. m \in tombs[r] => m \in mine[r] \cup deleted[r]
        BY DEF ScheduleIInv, Touched
      <3> QED
        BY <1>0, <1>4, <3>1, <3>2
    <2>2. ASSUME NEW r \in Roots, NEW m \in Name, grid'[r][m].source = "runtime"
          PROVE  m \in mine'[r] \cup deleted'[r]
      <3>1. r # root \/ m # n => m \in mine[r] \cup deleted[r]
        BY <1>3, <2>2 DEF ScheduleIInv, Touched
      <3> QED
        BY <1>0, <1>4, <3>1
    <2> QED
      BY <2>1, <2>2 DEF Touched
  <1>8. Roomed'
    BY <1>0, <1>1, <1>4 DEF ScheduleIInv, Roomed, Roots
  <1>9. EditsSurvive'
    <2>1. ASSUME NEW r \in Roots, NEW m \in Name, m \in mine'[r]
          PROVE  grid'[r][m].source = "runtime" /\ grid'[r][m].text = 0
      <3>1. CASE r = root /\ m = n
        BY <1>3, <1>4, <2>1, <3>1
      <3>2. CASE r # root \/ m # n
        BY <1>0, <1>3, <1>4, <2>1, <3>2 DEF ScheduleIInv, UserOwnsHis, EditsSurvive
      <3> QED
        BY <3>1, <3>2
    <2>2. ASSUME ~lapsed', NEW r \in Roots, NEW m \in mine'[r] \cup deleted'[r]
          PROVE  m \in mine'[root'] \cup deleted'[root']
      <3>1. m \in Name
        BY <1>a, <2>2
      <3>2. m = n \/ m \in mine[root] \cup deleted[root]
        BY <1>0, <1>1, <1>4, <2>2, <3>1 DEF ScheduleIInv, UserOwnsHis, EditsSurvive
      <3> QED
        BY <1>1, <1>4, <3>1, <3>2
    <2> QED
      BY <2>1, <2>2 DEF EditsSurvive
  <1>10. ReturnHasCause'
    <2> SUFFICES ASSUME NEW r \in Roots, NEW m \in Name, m \in deleted'[r], grid'[r][m] # Absent
                 PROVE  m \in torn'[r] \/ (r = "durable" /\ m \in left')
      BY DEF ReturnHasCause
    <2>1. r # root \/ m # n
      BY <1>3, <1>4
    <2>2. m \in deleted[r] /\ grid[r][m] # Absent
      BY <1>3, <1>4, <2>1
    <2> QED
      BY <1>0, <1>1, <1>4, <2>1, <2>2 DEF ScheduleIInv, UserOwnsHis, ReturnHasCause
  <1>11. StreakIsReal'
    BY <1>1 DEF ScheduleIInv, EngineIsFair, StreakIsReal
  <1>12. ReleaseArrives'
    BY <1>0, <1>1, <1>3, <1>4 DEF ScheduleIInv, ScheduleTypeOK, EngineIsFair, ReleaseArrives
  <1> QED
    BY <1>5, <1>6, <1>7, <1>8, <1>9, <1>10, <1>11, <1>12 DEF ScheduleIInv, UserOwnsHis, EngineIsFair

(* A seeding.                                                              *)
LEMMA SeedsStep == ScheduleIInv /\ Seeds => ScheduleIInv'
  <1> SUFFICES ASSUME ScheduleIInv, NEW delivered \in SUBSET Name, Upserts(delivered)
               PROVE  ScheduleIInv'
    BY Limits DEF Seeds, SeedsFile, SeedsConfig, SeedsSettings
  <1>0. ScheduleTypeOK /\ root \in Roots /\ grid \in [Roots -> [Name -> Entry \cup {Absent}]]
    BY DEF ScheduleIInv, ScheduleTypeOK
  <1>1. /\ grid' = [grid EXCEPT ![root] = Upserted(delivered)]
        /\ found' = found \cup {root} /\ spoiled' = spoiled /\ seeded' = seeded \cup delivered
        /\ UNCHANGED <<tombs, errors, missed, run, root, moves, tried, fed, release, flying,
                       mine, deleted, torn, left, lapsed>>
    BY DEF Upserts, Writes, streaks, process, owners
  <1>2. /\ grid' \in [Roots -> [Name -> Entry \cup {Absent}]]
        /\ grid'[root] = Upserted(delivered)
        /\ \A r \in Roots, n \in Name :
              \/ grid'[r][n] = grid[r][n]
              \/ /\ r = root /\ n \in delivered \ tombs[root]
                 /\ grid[r][n].source # "runtime"
                 /\ grid'[r][n].source = "template" /\ grid'[r][n].text = release
    <2> DEFINE g == Upserted(delivered)
    <2>1. /\ g \in [Name -> Entry \cup {Absent}]
          /\ \A n \in Name :
                \/ g[n] = grid[root][n]
                \/ /\ n \in delivered \ tombs[root] /\ grid[root][n].source # "runtime"
                   /\ g[n].source = "template" /\ g[n].text = release
      BY <1>0, UpsertedEntries
    <2>2. grid' = [grid EXCEPT ![root] = g]
      BY <1>1
    <2> HIDE DEF g
    <2> QED
      BY <1>0, <2>1, <2>2 DEF g
  <1>3. ScheduleTypeOK'
    BY <1>0, <1>1, <1>2 DEF ScheduleTypeOK
  <1>4. Buried' /\ Roomed'
    BY <1>0, <1>1 DEF ScheduleIInv, Buried, Lost, Roomed
  <1>5. Touched'
    BY <1>1, <1>2 DEF ScheduleIInv, Touched
  <1>6. EditsSurvive'
    <2>1. ASSUME NEW r \in Roots, NEW n \in Name, n \in mine[r]
          PROVE  grid'[r][n].source = "runtime" /\ grid'[r][n].text = 0
      BY <1>2, <2>1 DEF ScheduleIInv, UserOwnsHis, EditsSurvive
    <2> QED
      BY <1>1, <2>1 DEF ScheduleIInv, UserOwnsHis, EditsSurvive
  <1>7. ReturnHasCause'
    <2> SUFFICES ASSUME NEW r \in Roots, NEW n \in Name, n \in deleted[r], grid'[r][n] # Absent
                 PROVE  n \in torn[r] \/ (r = "durable" /\ n \in left)
      BY <1>1 DEF ReturnHasCause
    <2>1. CASE grid'[r][n] = grid[r][n]
      BY <2>1 DEF ScheduleIInv, UserOwnsHis, ReturnHasCause
    <2>2. CASE grid'[r][n] # grid[r][n]
      <3>1. n \notin tombs[r]
        BY <1>2, <2>2
      <3> QED
        BY <3>1 DEF ScheduleIInv, Buried, Lost
    <2> QED
      BY <2>1, <2>2
  <1>8. StreakIsReal'
    BY <1>1 DEF ScheduleIInv, EngineIsFair, StreakIsReal
  <1>9. ReleaseArrives'
    <2> SUFFICES ASSUME NEW n \in (seeded \cup delivered) \ (mine[root] \cup deleted[root]),
                        grid'[root][n].source \notin {"none", "untagged"}
                 PROVE  grid'[root][n].text = release
      BY <1>1 DEF ReleaseArrives
    <2>1. n \in Name /\ n \notin tombs[root] /\ grid[root][n].source # "runtime"
      BY <1>0 DEF ScheduleIInv, ScheduleTypeOK, Touched
    <2>2. grid[root][n].source \in {"none", "template", "untagged"}
      BY <1>0, <2>1, EntryIsPresent DEF Absent
    <2>3. CASE n \in delivered /\ grid[root][n].source # "untagged"
      BY <1>2, <2>1, <2>2, <2>3 DEF Upserted
    <2>4. CASE n \in delivered /\ grid[root][n].source = "untagged"
      BY <1>2, <2>1, <2>4 DEF Upserted
    <2>5. CASE n \notin delivered
      BY <1>0, <1>2, <2>1, <2>5 DEF ScheduleIInv, EngineIsFair, ReleaseArrives
    <2> QED
      BY <2>3, <2>4, <2>5
  <1> QED
    BY <1>3, <1>4, <1>5, <1>6, <1>7, <1>8, <1>9 DEF ScheduleIInv, UserOwnsHis, EngineIsFair

(* What an outcome does to the streaks and the runs.                       *)
LEMMA StreaksStep ==
  ASSUME ScheduleTypeOK, StreakIsReal, NEW n \in Name, NEW trouble \in Trouble,
         NEW streak \in 0..(DisableAfter + 1), NEW good \in BOOLEAN,
         Records(n, streak, good, trouble),
         \/ good /\ streak = 0 /\ run' = [run EXCEPT ![n] = 0]
         \/ ~good /\ streak = Read(trouble)[n] /\ run' = run
         \/ /\ ~good /\ streak = AtMost(Read(trouble)[n] + 1, DisableAfter + 1)
            /\ run' = [run EXCEPT ![n] = AtMost(@ + 1, DisableAfter)]
  PROVE  /\ errors' \in [Roots -> [Name -> 0..(DisableAfter + 1)]] /\ run' \in [Name -> 0..DisableAfter]
         /\ missed' \in NameSets /\ flying' \subseteq Name
         /\ StreakIsReal'
         /\ UNCHANGED <<tombs, root, moves, tried, fed, release, seeded, mine, deleted, torn, left, lapsed>>
  <1>0. /\ root \in Roots /\ errors \in [Roots -> [Name -> 0..(DisableAfter + 1)]]
        /\ run \in [Name -> 0..DisableAfter] /\ DisableAfter \in Nat \ {0}
        /\ missed \in [Roots -> SUBSET Name] /\ flying \subseteq Name
    BY Limits DEF ScheduleTypeOK, NameSets
  <1>1. Read(trouble) \in [Name -> 0..(DisableAfter + 1)]
        /\ \A m \in Name : Read(trouble)[m] = 0 \/ Read(trouble)[m] = errors[root][m]
    BY <1>0 DEF Read, NoStreaks
  <1> DEFINE written == [Read(trouble) EXCEPT ![n] = streak]
  <1>2. /\ written \in [Name -> 0..(DisableAfter + 1)] /\ written[n] = streak
        /\ \A m \in Name \ {n} : written[m] = 0 \/ written[m] = errors[root][m]
    BY <1>1
  <1>3. errors' = errors \/ errors' = [errors EXCEPT ![root] = written]
    BY DEF Records
  <1> HIDE DEF written
  <1>4. /\ errors' \in [Roots -> [Name -> 0..(DisableAfter + 1)]]
        /\ \A r \in Roots, m \in Name :
             \/ errors'[r][m] = errors[r][m]
             \/ m # n /\ errors'[r][m] = 0
             \/ m = n /\ r = root /\ errors'[r][m] = streak
    BY <1>0, <1>2, <1>3
  <1>5. missed' = [r \in Roots |-> {m \in missed[r] \cup (IF good THEN {n} ELSE {}) : errors'[r][m] > 0}]
    BY DEF Records
  <1>6. missed' \in [Roots -> SUBSET Name]
        /\ \A r \in Roots : missed'[r] = {m \in missed[r] \cup (IF good THEN {n} ELSE {}) : errors'[r][m] > 0}
    BY <1>0, <1>5
  <1>7. run' \in [Name -> 0..DisableAfter] /\ \A m \in Name \ {n} : run'[m] = run[m]
    BY <1>0 DEF AtMost
  <1>8. ASSUME NEW r \in Roots, NEW m \in Name, m \notin missed'[r]
        PROVE  AtMost(errors'[r][m], DisableAfter) <= run'[m]
    <2>1. errors'[r][m] \in 0..(DisableAfter + 1) /\ run'[m] \in 0..DisableAfter
          /\ errors[r][m] \in 0..(DisableAfter + 1) /\ run[m] \in 0..DisableAfter
      BY <1>0, <1>4, <1>7
    <2>2. CASE errors'[r][m] = 0
      BY <1>0, <2>1, <2>2 DEF AtMost
    <2>3. CASE errors'[r][m] > 0
      <3>1. m \notin missed[r] /\ (m = n => ~good)
        BY <1>6, <1>8, <2>3
      <3>2. AtMost(errors[r][m], DisableAfter) <= run[m]
        BY <3>1 DEF StreakIsReal
      <3>3. CASE m # n
        BY <1>4, <1>7, <2>3, <3>2, <3>3
      <3>4. CASE m = n /\ run' = run
        <4>1. streak = Read(trouble)[n] \/ run'[n] = AtMost(run[n] + 1, DisableAfter)
          BY <1>0, <3>1, <3>4
        <4>2. errors'[r][n] = errors[r][n] \/ (r = root /\ errors'[r][n] = streak)
          BY <1>4, <3>4
        <4>3. CASE streak = Read(trouble)[n]
          <5>1. errors'[r][n] = errors[r][n]
            BY <1>1, <2>3, <3>4, <4>2, <4>3
          <5> QED
            BY <3>2, <3>4, <5>1
        <4>4. CASE streak # Read(trouble)[n]
          <5>1. /\ run[n] = AtMost(run[n] + 1, DisableAfter)
                /\ streak = AtMost(Read(trouble)[n] + 1, DisableAfter + 1)
            BY <1>0, <3>1, <3>4, <4>1, <4>4
          <5>2. run[n] = DisableAfter
            BY <1>0, <2>1, <3>4, <5>1 DEF AtMost
          <5> QED
            BY <1>0, <2>1, <3>4, <5>2 DEF AtMost
        <4> QED
          BY <4>3, <4>4
      <3>5. CASE m = n /\ run' # run
        <4>1. /\ run'[n] = AtMost(run[n] + 1, DisableAfter)
              /\ streak = AtMost(Read(trouble)[n] + 1, DisableAfter + 1)
          BY <1>0, <3>1, <3>5
        <4>2. Read(trouble)[n] \in 0..(DisableAfter + 1) /\ (Read(trouble)[n] = 0 \/ Read(trouble)[n] = errors[root][n])
          BY <1>1
        <4>3. errors'[r][n] = errors[r][n] \/ (r = root /\ errors'[r][n] = streak)
          BY <1>4, <3>5
        <4> QED
          BY <1>0, <2>1, <3>2, <3>5, <4>1, <4>2, <4>3 DEF AtMost
      <3> QED
        BY <3>3, <3>4, <3>5
    <2> QED
      BY <2>1, <2>2, <2>3
  <1>9. StreakIsReal'
    BY <1>8 DEF StreakIsReal
  <1> QED
    BY <1>0, <1>4, <1>6, <1>7, <1>9 DEF Records, process, owners, NameSets

(* A run that starts, ends or fails.                                       *)
LEMMA RunsStep == ScheduleIInv /\ Runs => ScheduleIInv'
  <1> SUFFICES ASSUME ScheduleIInv, NEW n \in Name, NEW trouble \in Trouble,
                      \/ RunStarts(n) \/ RunFails(n, trouble) \/ RunEnds(n, trouble)
                      \/ RunIsEmpty(n, trouble) \/ RunIsNeutral(n, trouble)
               PROVE  ScheduleIInv'
    BY DEF Runs, Trouble
  <1>0. /\ ScheduleTypeOK /\ StreakIsReal /\ root \in Roots
        /\ grid \in [Roots -> [Name -> Entry \cup {Absent}]] /\ DisableAfter \in Nat \ {0}
    BY Limits DEF ScheduleIInv, ScheduleTypeOK, EngineIsFair
  <1>1. /\ errors' \in [Roots -> [Name -> 0..(DisableAfter + 1)]] /\ run' \in [Name -> 0..DisableAfter]
        /\ missed' \in NameSets /\ flying' \subseteq Name
        /\ StreakIsReal'
        /\ UNCHANGED <<tombs, root, moves, tried, fed, release, seeded, mine, deleted, torn, left, lapsed>>
    <2>1. CASE RunStarts(n)
      <3>1. UNCHANGED <<tombs, root, moves, tried, fed, release, seeded, mine, deleted, torn, left,
                        lapsed, errors, missed, run>>
        BY <2>1 DEF RunStarts, stores, streaks, process, owners
      <3>2. flying' \subseteq Name
        BY <1>0, <2>1 DEF RunStarts, ScheduleTypeOK
      <3> QED
        BY <1>0, <3>1, <3>2 DEF ScheduleTypeOK, StreakIsReal
    <2>2. CASE RunEnds(n, trouble) \/ RunIsEmpty(n, trouble)
      <3>1. Records(n, 0, TRUE, trouble) /\ run' = [run EXCEPT ![n] = 0]
        BY <2>2 DEF RunEnds, RunIsEmpty
      <3>2. 0 \in 0..(DisableAfter + 1) /\ TRUE \in BOOLEAN
        BY <1>0
      <3> DEFINE good == TRUE
      <3>3. good /\ good \in BOOLEAN /\ Records(n, 0, good, trouble)
        BY <3>1
      <3> HIDE DEF good
      <3> QED
        BY <1>0, <3>1, <3>2, <3>3, StreaksStep
    <2>3. Read(trouble)[n] \in 0..(DisableAfter + 1)
          /\ AtMost(Read(trouble)[n] + 1, DisableAfter + 1) \in 0..(DisableAfter + 1)
      <3>1. Read(trouble)[n] \in 0..(DisableAfter + 1)
        BY <1>0 DEF Read, NoStreaks, ScheduleTypeOK
      <3> QED
        BY <1>0, <3>1 DEF AtMost
    <2>4. CASE RunIsNeutral(n, trouble)
      <3>1. Records(n, Read(trouble)[n], FALSE, trouble) /\ run' = run
        BY <2>4 DEF RunIsNeutral
      <3> QED
        BY <1>0, <2>3, <3>1, StreaksStep
    <2>5. CASE RunFails(n, trouble)
      <3>1. /\ Records(n, AtMost(Read(trouble)[n] + 1, DisableAfter + 1), FALSE, trouble)
            /\ run' = [run EXCEPT ![n] = AtMost(@ + 1, DisableAfter)]
        BY <2>5 DEF RunFails
      <3> QED
        BY <1>0, <2>3, <3>1, StreaksStep
    <2> QED
      BY <2>1, <2>2, <2>4, <2>5
  <1>2. /\ spoiled' = spoiled /\ found' \in {found, found \cup {root}}
        /\ \/ grid' = grid
           \/ grid[root][n].enabled /\ grid' = [grid EXCEPT ![root] = Disabled(n)]
    BY DEF RunStarts, RunEnds, RunIsEmpty, RunIsNeutral, RunFails, Writes, Fires, stores
  <1>3. /\ grid' \in [Roots -> [Name -> Entry \cup {Absent}]]
        /\ \A r \in Roots, m \in Name :
             /\ grid'[r][m].source = grid[r][m].source
             /\ grid'[r][m].text = grid[r][m].text
             /\ grid'[r][m] # Absent => grid[r][m] # Absent
    <2>1. CASE grid' = grid
      BY <1>0, <2>1
    <2>2. CASE grid[root][n].enabled /\ grid' = [grid EXCEPT ![root] = Disabled(n)]
      <3>1. grid[root][n] \in Entry
        BY <1>0, <2>2 DEF Absent
      <3> DEFINE e == [grid[root][n] EXCEPT !.enabled = FALSE]
      <3>2. e \in Entry /\ e.source = grid[root][n].source /\ e.text = grid[root][n].text
        BY <3>1 DEF Entry
      <3> DEFINE g == Disabled(n)
      <3>3. g = [grid[root] EXCEPT ![n] = e]
        BY DEF Disabled
      <3> HIDE DEF e
      <3>4. g \in [Name -> Entry \cup {Absent}] /\ g[n] = e /\ \A m \in Name \ {n} : g[m] = grid[root][m]
        BY <1>0, <3>2, <3>3
      <3>5. grid' = [grid EXCEPT ![root] = g]
        BY <2>2
      <3> HIDE DEF g
      <3>6. /\ grid' \in [Roots -> [Name -> Entry \cup {Absent}]] /\ grid'[root][n] = e
            /\ \A r \in Roots, m \in Name : r # root \/ m # n => grid'[r][m] = grid[r][m]
        BY <1>0, <3>4, <3>5
      <3>7. grid[root][n] # Absent
        BY <3>1, EntryIsPresent
      <3> QED
        BY <3>2, <3>6, <3>7
    <2> QED
      BY <1>2, <2>1, <2>2
  <1>4. ScheduleTypeOK'
    BY <1>0, <1>1, <1>2, <1>3 DEF ScheduleTypeOK
  <1>6. Buried' /\ Touched' /\ Roomed'
    BY <1>0, <1>1, <1>2, <1>3 DEF ScheduleIInv, Buried, Lost, Touched, Roomed
  <1>7. EditsSurvive' /\ ReturnHasCause'
    BY <1>1, <1>3 DEF ScheduleIInv, UserOwnsHis, EditsSurvive, ReturnHasCause
  <1>8. ReleaseArrives'
    <2> SUFFICES ASSUME NEW m \in seeded \ (mine[root] \cup deleted[root]),
                        grid'[root][m].source \notin {"none", "untagged"}
                 PROVE  grid'[root][m].text = release
      BY <1>1 DEF ReleaseArrives
    <2>1. m \in Name
      BY <1>0 DEF ScheduleTypeOK
    <2>2. grid[root][m].source \notin {"none", "untagged"} /\ grid'[root][m].text = grid[root][m].text
      BY <1>0, <1>3, <2>1
    <2> QED
      BY <2>2 DEF ScheduleIInv, EngineIsFair, ReleaseArrives
  <1> QED
    BY <1>1, <1>4, <1>6, <1>7, <1>8 DEF ScheduleIInv, UserOwnsHis, EngineIsFair

(* A copy of the legacy grid, whole or cut.                                *)
LEMMA CutEntries ==
  ASSUME ScheduleTypeOK, NEW g \in Cut \cup {grid["legacy"]}
  PROVE  /\ g \in [Name -> Entry \cup {Absent}]
         /\ \A n \in Name : /\ g[n].source = "runtime" => g[n] = grid["legacy"][n]
                            /\ g[n] # Absent => grid["legacy"][n] # Absent
  <1>1. grid["legacy"] \in [Name -> Entry \cup {Absent}] /\ "legacy" \in Roots
    BY TypedAt DEF Roots
  <1> DEFINE bare == [source |-> "untagged", text |-> 0, enabled |-> TRUE]
  <1>2. bare \in Entry /\ bare.source = "untagged"
    BY Limits DEF Entry
  <1> HIDE DEF bare
  <1>3. CASE g = grid["legacy"]
    BY <1>1, <1>3
  <1>4. CASE g \in Cut
    <2>1. PICK kept \in SUBSET Present(grid["legacy"]) : \E last \in SUBSET kept :
            g = [n \in Name |-> IF n \in kept \ last THEN grid["legacy"][n]
                                ELSE IF n \in last THEN bare ELSE Absent]
      BY <1>4 DEF Cut, bare
    <2>2. PICK last \in SUBSET kept :
            g = [n \in Name |-> IF n \in kept \ last THEN grid["legacy"][n]
                                ELSE IF n \in last THEN bare ELSE Absent]
      BY <2>1
    <2>3. Absent.source = "none"
      BY DEF Absent
    <2> QED
      BY <1>1, <1>2, <2>2, <2>3 DEF Present
  <1> QED
    BY <1>3, <1>4

(* A call that finds the root moved or not.                                *)
LEMMA MovesStep ==
  ASSUME ScheduleIInv, NEW r \in Roots, NEW attempted \in BOOLEAN, MovesTo(r, attempted),
         fed' \in Roots, release' \in 1..MaxRelease, flying' \subseteq Name
  PROVE  ScheduleIInv'
  <1>0. /\ ScheduleTypeOK /\ "legacy" \in Roots /\ "durable" \in Roots
        /\ grid \in [Roots -> [Name -> Entry \cup {Absent}]]
    BY DEF ScheduleIInv, ScheduleTypeOK, Roots
  <1>1. /\ root' = r /\ seeded' = {} /\ UNCHANGED <<tombs, errors, missed, run>>
        /\ tried' \in BOOLEAN
    BY DEF MovesTo
  <1>2. moves' \in 0..MaxMoves
    <2>1. moves \in 0..MaxMoves /\ MaxMoves \in Nat /\ moves' \in {moves, moves + 1} /\ moves' <= MaxMoves
      BY <1>0, Limits DEF ScheduleTypeOK, MovesTo
    <2> QED
      BY <2>1
  <1>3. CASE Copies /\ r = "durable" /\ "legacy" \in found /\ "durable" \notin found
    <2>1. PICK g \in Cut \cup {grid["legacy"]}, broken \in BOOLEAN :
            /\ grid' = [grid EXCEPT !["durable"] = g]
            /\ spoiled' = broken
            /\ found' = found \cup {"durable"}
            /\ lapsed' = (broken \/ g # grid["legacy"])
            /\ mine' = [mine EXCEPT !["durable"] = {n \in mine["legacy"] : g[n] = grid["legacy"][n]}]
            /\ deleted' = [deleted EXCEPT !["durable"] = deleted["legacy"]]
            /\ torn' = [torn EXCEPT !["durable"] = torn["legacy"]]
            /\ left' = tombs["legacy"]
      BY <1>3 DEF Copies
    <2>2. /\ g \in [Name -> Entry \cup {Absent}]
          /\ \A n \in Name : /\ g[n].source = "runtime" => g[n] = grid["legacy"][n]
                             /\ g[n] # Absent => grid["legacy"][n] # Absent
      BY <1>0, CutEntries
    <2>3. /\ grid' \in [Roots -> [Name -> Entry \cup {Absent}]]
          /\ grid'["durable"] = g /\ grid'["legacy"] = grid["legacy"]
      BY <1>0, <2>1, <2>2
    <2>4. /\ mine \in [Roots -> SUBSET Name] /\ deleted \in [Roots -> SUBSET Name]
          /\ torn \in [Roots -> SUBSET Name] /\ tombs \in [Roots -> SUBSET Name]
      BY <1>0 DEF ScheduleTypeOK, NameSets
    <2>5. /\ mine' \in [Roots -> SUBSET Name] /\ deleted' \in [Roots -> SUBSET Name]
          /\ torn' \in [Roots -> SUBSET Name] /\ left' \subseteq Name
          /\ mine'["durable"] = {n \in mine["legacy"] : g[n] = grid["legacy"][n]}
          /\ deleted'["durable"] = deleted["legacy"] /\ torn'["durable"] = torn["legacy"]
          /\ mine'["legacy"] = mine["legacy"] /\ deleted'["legacy"] = deleted["legacy"]
          /\ torn'["legacy"] = torn["legacy"]
      BY <1>0, <2>1, <2>4
    <2>6. ScheduleTypeOK'
      <3>1. found' \subseteq Roots /\ spoiled' \in BOOLEAN /\ lapsed' \in BOOLEAN
        BY <1>0, <2>1 DEF ScheduleTypeOK
      <3> QED
        BY <1>0, <1>1, <1>2, <2>3, <2>5, <3>1 DEF ScheduleTypeOK, NameSets
    <2>7. Buried'
      <3>1. deleted["legacy"] \subseteq tombs["legacy"] \cup torn["legacy"]
        BY <1>0 DEF ScheduleIInv, Buried, Lost
      <3> QED
        BY <1>1, <2>1, <2>5, <3>1 DEF Buried, Lost, Roots
    <2>8. Touched'
      <3>1. tombs["durable"] = {} /\ tombs["legacy"] \subseteq mine["legacy"] \cup deleted["legacy"]
        BY <1>0, <1>3 DEF ScheduleIInv, Roomed, Touched
      <3>2. \A n \in Name : grid["legacy"][n].source = "runtime" => n \in mine["legacy"] \cup deleted["legacy"]
        BY <1>0 DEF ScheduleIInv, Touched
      <3>3. \A n \in Name : g[n].source = "runtime" => n \in mine'["durable"] \cup deleted'["durable"]
        BY <2>2, <2>5, <3>2
      <3>4. tombs'["durable"] = {} /\ tombs'["legacy"] = tombs["legacy"]
        BY <1>1, <3>1
      <3> QED
        BY <2>3, <2>5, <3>1, <3>2, <3>3, <3>4 DEF Touched, Roots
    <2>9. Roomed'
      BY <1>0, <1>1, <1>3, <2>1 DEF ScheduleIInv, Roomed, Roots
    <2>10. EditsSurvive'
      <3>1. \A n \in Name : n \in mine["legacy"] => grid["legacy"][n].source = "runtime" /\ grid["legacy"][n].text = 0
        BY <1>0 DEF ScheduleIInv, UserOwnsHis, EditsSurvive
      <3>2. ~lapsed' => mine'["durable"] = mine["legacy"]
        BY <2>1, <2>5
      <3> QED
        BY <1>1, <1>3, <2>3, <2>5, <3>1, <3>2 DEF EditsSurvive, Roots
    <2>11. ReturnHasCause'
      <3>1. \A n \in Name : n \in deleted["legacy"] /\ grid["legacy"][n] # Absent => n \in torn["legacy"]
        BY <1>0 DEF ScheduleIInv, UserOwnsHis, ReturnHasCause
      <3> QED
        BY <2>2, <2>3, <2>5, <3>1 DEF ReturnHasCause, Roots
    <2>12. EngineIsFair'
      BY <1>1 DEF ScheduleIInv, EngineIsFair, StreakIsReal, ReleaseArrives
    <2> QED
      BY <2>6, <2>7, <2>8, <2>9, <2>10, <2>11, <2>12 DEF ScheduleIInv, UserOwnsHis
  <1>4. CASE /\ UNCHANGED <<grid, spoiled, found, mine, deleted, torn, left>> /\ lapsed' \in BOOLEAN
             /\ ~lapsed' => IF r = "legacy" THEN "durable" \notin found
                            ELSE ("durable" \in found /\ ~lapsed) \/ found = {}
    <2>1. ScheduleTypeOK'
      BY <1>0, <1>1, <1>2, <1>4 DEF ScheduleTypeOK
    <2>2. Buried' /\ Touched'
      BY <1>1, <1>4 DEF ScheduleIInv, Buried, Lost, Touched
    <2>3. Roomed'
      BY <1>1, <1>4 DEF ScheduleIInv, Roomed
    <2>4. EditsSurvive'
      <3>1. \A s \in Roots \ found : mine[s] = {} /\ deleted[s] = {}
        BY DEF ScheduleIInv, Roomed
      <3>2. root = "durable" \/ lapsed \/ "durable" \notin found
        BY <1>0 DEF ScheduleIInv, Roomed, ScheduleTypeOK, Roots
      <3>3. ~lapsed' => \A s \in Roots : mine[s] \cup deleted[s] \subseteq mine[r] \cup deleted[r]
        BY <1>0, <1>4, <3>1, <3>2 DEF ScheduleIInv, UserOwnsHis, EditsSurvive, Roots
      <3> QED
        BY <1>1, <1>4, <3>3 DEF ScheduleIInv, UserOwnsHis, EditsSurvive
    <2>5. ReturnHasCause'
      BY <1>1, <1>4 DEF ScheduleIInv, UserOwnsHis, ReturnHasCause
    <2>6. EngineIsFair'
      BY <1>1 DEF ScheduleIInv, EngineIsFair, StreakIsReal, ReleaseArrives
    <2> QED
      BY <2>1, <2>2, <2>3, <2>4, <2>5, <2>6 DEF ScheduleIInv, UserOwnsHis
  <1>5. \/ Copies /\ r = "durable" /\ "legacy" \in found /\ "durable" \notin found
        \/ /\ UNCHANGED <<grid, spoiled, found, mine, deleted, torn, left>>
           /\ \/ lapsed' = TRUE
              \/ /\ r = "durable" => "legacy" \notin found \/ "durable" \in found
                 /\ lapsed' = ("durable" \in found /\ (r = "legacy" \/ lapsed))
    BY <1>0 DEF MovesTo, CopiesNothing
  <1>6. /\ lapsed \in BOOLEAN /\ r \in {"legacy", "durable"}
        /\ "durable" \notin found /\ "legacy" \notin found => found = {}
    BY <1>0 DEF ScheduleTypeOK, Roots
  <1>7. CASE Copies /\ r = "durable" /\ "legacy" \in found /\ "durable" \notin found
    BY <1>3, <1>7
  <1>8. CASE /\ UNCHANGED <<grid, spoiled, found, mine, deleted, torn, left>>
             /\ \/ lapsed' = TRUE
                \/ /\ r = "durable" => "legacy" \notin found \/ "durable" \in found
                   /\ lapsed' = ("durable" \in found /\ (r = "legacy" \/ lapsed))
    <2>1. /\ lapsed' \in BOOLEAN
          /\ ~lapsed' => IF r = "legacy" THEN "durable" \notin found
                         ELSE ("durable" \in found /\ ~lapsed) \/ found = {}
      BY <1>6, <1>8
    <2> QED
      BY <1>4, <1>8, <2>1
  <1> QED
    BY <1>5, <1>7, <1>8

(* A change of root, a boot, or a new volume.                              *)
LEMMA RestartsStep == ScheduleIInv /\ Restarts => ScheduleIInv'
  <1> SUFFICES ASSUME ScheduleIInv, RootMoves \/ Boots \/ Wipes PROVE ScheduleIInv'
    BY DEF Restarts
  <1>0. /\ ScheduleTypeOK /\ "legacy" \in Roots /\ fed \in Roots /\ tried \in BOOLEAN
        /\ release \in 1..MaxRelease /\ flying \subseteq Name
    BY DEF ScheduleIInv, ScheduleTypeOK, Roots
  <1>1. CASE RootMoves
    BY <1>0, <1>1, MovesStep DEF RootMoves
  <1>2. CASE Boots
    <2>1. AtMost(release + 1, MaxRelease) \in 1..MaxRelease
      BY <1>0, Limits DEF AtMost
    <2> QED
      BY <1>0, <1>2, <2>1, MovesStep DEF Boots
  <1>3. CASE Wipes
    <2>1. /\ grid' = [grid EXCEPT !["legacy"] = NoEntries]
          /\ errors' = [errors EXCEPT !["legacy"] = NoStreaks]
          /\ tombs' = [tombs EXCEPT !["legacy"] = {}] /\ missed' = [missed EXCEPT !["legacy"] = {}]
          /\ mine' = [mine EXCEPT !["legacy"] = {}] /\ deleted' = [deleted EXCEPT !["legacy"] = {}]
          /\ torn' = [torn EXCEPT !["legacy"] = {}]
          /\ found' = found \ {"legacy"} /\ root = "legacy" /\ fed' = "legacy" /\ tried' = FALSE
          /\ seeded' = {} /\ flying' = {}
          /\ UNCHANGED <<spoiled, root, moves, release, left, lapsed, run>>
      BY <1>3 DEF Wipes
    <2>2. /\ grid \in [Roots -> [Name -> Entry \cup {Absent}]]
          /\ errors \in [Roots -> [Name -> 0..(DisableAfter + 1)]]
          /\ tombs \in [Roots -> SUBSET Name] /\ missed \in [Roots -> SUBSET Name]
          /\ mine \in [Roots -> SUBSET Name] /\ deleted \in [Roots -> SUBSET Name]
          /\ torn \in [Roots -> SUBSET Name]
      BY <1>0 DEF ScheduleTypeOK, NameSets
    <2>3. /\ NoEntries \in [Name -> Entry \cup {Absent}]
          /\ NoStreaks \in [Name -> 0..(DisableAfter + 1)]
          /\ \A n \in Name : NoEntries[n] = Absent /\ NoStreaks[n] = 0 /\ Absent.source = "none"
      BY Limits DEF NoEntries, NoStreaks, Absent
    <2>4. /\ grid' \in [Roots -> [Name -> Entry \cup {Absent}]]
          /\ grid'["legacy"] = NoEntries /\ grid'["durable"] = grid["durable"]
          /\ errors' \in [Roots -> [Name -> 0..(DisableAfter + 1)]]
          /\ errors'["legacy"] = NoStreaks /\ errors'["durable"] = errors["durable"]
      BY <1>0, <2>1, <2>2, <2>3 DEF Roots
    <2>5. /\ {tombs', mine', deleted', torn', missed'} \subseteq NameSets
          /\ tombs'["legacy"] = {} /\ mine'["legacy"] = {} /\ deleted'["legacy"] = {} /\ torn'["legacy"] = {}
          /\ tombs'["durable"] = tombs["durable"] /\ mine'["durable"] = mine["durable"]
          /\ deleted'["durable"] = deleted["durable"] /\ torn'["durable"] = torn["durable"]
          /\ missed'["durable"] = missed["durable"]
      BY <1>0, <2>1, <2>2 DEF NameSets, Roots
    <2>6. ScheduleTypeOK'
      BY <1>0, <2>1, <2>4, <2>5 DEF ScheduleTypeOK
    <2>7. Buried'
      BY <2>1, <2>5 DEF ScheduleIInv, Buried, Lost, Roots
    <2>8. Touched'
      BY <2>3, <2>4, <2>5 DEF ScheduleIInv, Touched, Roots
    <2>9. Roomed'
      BY <2>1, <2>5 DEF ScheduleIInv, Roomed, Roots
    <2>10. EditsSurvive'
      <3>1. ~lapsed => mine["durable"] = {} /\ deleted["durable"] = {}
        BY <2>1 DEF ScheduleIInv, Roomed, Roots
      <3>2. \A n \in mine["durable"] : grid["durable"][n].source = "runtime" /\ grid["durable"][n].text = 0
        BY <2>2 DEF ScheduleIInv, UserOwnsHis, EditsSurvive, Roots
      <3> QED
        BY <2>1, <2>4, <2>5, <3>1, <3>2 DEF EditsSurvive, Roots
    <2>11. ReturnHasCause'
      BY <2>1, <2>4, <2>5 DEF ScheduleIInv, UserOwnsHis, ReturnHasCause, Roots
    <2>12. StreakIsReal'
      <3>1. \A n \in Name : run[n] \in Nat /\ AtMost(0, DisableAfter) = 0
        BY <1>0, Limits DEF ScheduleTypeOK, AtMost
      <3> QED
        BY <2>1, <2>3, <2>4, <2>5, <3>1 DEF ScheduleIInv, EngineIsFair, StreakIsReal, Roots
    <2>13. ReleaseArrives'
      BY <2>1 DEF ReleaseArrives
    <2> QED
      BY <2>6, <2>7, <2>8, <2>9, <2>10, <2>11, <2>12, <2>13 DEF ScheduleIInv, UserOwnsHis, EngineIsFair
  <1> QED
    BY <1>1, <1>2, <1>3

(* A step that changes nothing.                                            *)
LEMMA SchedulesStutter == ScheduleIInv /\ UNCHANGED scheduleVars => ScheduleIInv'
  BY DEF scheduleVars, stores, streaks, process, owners, ScheduleIInv, ScheduleTypeOK, Buried, Lost,
         Touched, Roomed, UserOwnsHis, EngineIsFair, EditsSurvive, ReturnHasCause, StreakIsReal,
         ReleaseArrives

(* The inductive invariant holds in every reachable state.                 *)
LEMMA SchedulesInductive == ScheduleSpec => []ScheduleIInv
  <1>1. ScheduleIInv /\ [ScheduleNext]_scheduleVars => ScheduleIInv'
    BY CallsStep, SeedsStep, RunsStep, RestartsStep, SchedulesStutter DEF ScheduleNext
  <1> QED
    BY SchedulesInit, <1>1, PTL DEF ScheduleSpec

-----------------------------------------------------------------------------
(* Everything has its declared type.                                       *)
THEOREM SchedulesTypeCorrect == ScheduleSpec => []ScheduleTypeOK
  BY SchedulesInductive, PTL DEF ScheduleIInv

(* An edit of the user survives every seeding, disabling and restart in    *)
(* the root it was made in, and every change of root whose carry-over did  *)
(* not fail; and what he deleted returns only where its tombstone was not  *)
(* written or was left behind.                                             *)
THEOREM UserIsOwner == ScheduleSpec => []UserOwnsHis
  BY SchedulesInductive, PTL DEF ScheduleIInv

(* No streak of errors exceeds the runs that failed one after the other,   *)
(* unless that root missed a good run, and a release reaches every entry   *)
(* the user has not made his own.                                          *)
THEOREM EngineIsJust == ScheduleSpec => []EngineIsFair
  BY SchedulesInductive, PTL DEF ScheduleIInv
=============================================================================
