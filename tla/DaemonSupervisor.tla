---------------------------- MODULE DaemonSupervisor ----------------------------
(***************************************************************************)
(* The daemons of plugins: the runtime that converges on the installed     *)
(* plugins (daemon_runtime.py), the private socket of each plugin, its     *)
(* lane (channel_events.py), and the supervisor with one monitor thread    *)
(* per daemon (plugin_daemons.py), from boot to the end of main().         *)
(*                                                                         *)
(* The asyncio lock makes calls of ensure_daemons follow one another, so   *)
(* one is modelled at a time.  Threads interleave at every lock, wait and  *)
(* system call.  A token is a number, and 0 is the absence of one.         *)
(***************************************************************************)
EXTENDS Naturals, FiniteSets

CONSTANTS
  Daemon,
  Plugin,
  Owner,      \* the plugin of a daemon
  Trigger,    \* the daemons of kind trigger; the others are of kind channel
  MaxFast,    \* max_fast_failures
  MaxTokens   \* bound: the tokens issued

ASSUME DaemonAssumption ==
  /\ Owner \in [Daemon -> Plugin]
  /\ Trigger \subseteq Daemon
  /\ MaxFast \in Nat \ {0}
  /\ MaxTokens \in Nat

VARIABLES
  (* The event loop: *)
  installed, \* the daemons whose plugins are on disk
  native,    \* MOLECULE_RUNTIME_NATIVE_SCHEDULER
  created,   \* there is a supervisor
  fresh,     \* the daemons an ensure_daemons in flight adds
  binding,   \* the plugins whose sockets it binds
  specs,     \* the specs of the supervisor
  lane,      \* the token of a plugin's socket that is bound
  env,       \* the token in the env of a daemon's spec
  issued,    \* the last token issued
  stop,      \* how far the shutdown is
  doomed,    \* the children stop() has taken and not reaped
  (* A monitor and its child: *)
  monitor,   \* where the thread stands
  procs,     \* _procs
  kid,       \* the last child
  token,     \* the token the child was given
  fast       \* fast_failures

loop == <<installed, native, created, fresh, binding, specs, lane, env, issued>>
child == <<kid, token>>
vars == <<loop, stop, doomed, monitor, procs, child, fast>>

Alive(d) == kid[d] \in {"alive", "termed"}
Watches == {"none", "top", "spawn", "register", "watch", "backoff", "straggler",
            "kill", "failed", "done"}

TypeOK ==
  /\ {installed, fresh, specs, doomed, procs} \subseteq SUBSET Daemon
  /\ binding \subseteq Plugin
  /\ {native, created} \subseteq BOOLEAN
  /\ lane \in [Plugin -> Nat]
  /\ env \in [Daemon -> Nat]
  /\ issued \in Nat
  /\ stop \in {"no", "set", "reap", "join", "lanes", "exited"}
  /\ monitor \in [Daemon -> Watches]
  /\ kid \in [Daemon -> {"none", "alive", "termed", "dead"}]
  /\ token \in [Daemon -> Nat]
  /\ fast \in [Daemon -> 0..MaxFast]

Init ==
  /\ installed \in SUBSET Daemon
  /\ fresh = {} /\ binding = {} /\ specs = {} /\ doomed = {} /\ procs = {}
  /\ native = FALSE /\ created = FALSE
  /\ lane = [p \in Plugin |-> 0]
  /\ env = [d \in Daemon |-> 0]
  /\ issued = 0
  /\ stop = "no"
  /\ monitor = [d \in Daemon |-> "none"]
  /\ kid = [d \in Daemon |-> "none"]
  /\ token = [d \in Daemon |-> 0]
  /\ fast = [d \in Daemon |-> 0]

-------------------------------------------------------------------------------
(* The event loop.                                                         *)

(* A plugin is unpacked, with all its daemons, or removed.                 *)
Installs(p) ==
  /\ stop = "no"
  /\ LET own == {d \in Daemon : Owner[d] = p}
     IN installed' \in {installed \cup own, installed \ own}
  /\ UNCHANGED <<native, created, fresh, binding, specs, lane, env, issued>>
  /\ UNCHANGED <<stop, doomed, monitor, procs, child, fast>>

(* The plugins of some daemons that have no socket yet.                    *)
Unbound(ds) == {p \in {Owner[d] : d \in ds} : lane[p] = 0}

(* ensure_daemons up to its first await: the flag for the platform's       *)
(* scheduler follows the installed plugins, whatever the supervisor runs.  *)
(* Sockets are bound for the new daemons, and for those whose bind failed  *)
(* before.                                                                 *)
Discovers ==
  /\ stop = "no" /\ fresh = {}
  /\ native' = (installed \cap Trigger # {})
  /\ fresh' = installed \ specs
  /\ binding' = IF fresh' = {} THEN {} ELSE Unbound(specs \cup fresh')
  /\ UNCHANGED <<installed, created, specs, lane, env, issued>>
  /\ UNCHANGED <<stop, doomed, monitor, procs, child, fast>>

(* supervise() and start(): a monitor for each daemon that has none.       *)
Supervises ==
  /\ created' = TRUE
  /\ specs' = specs \cup fresh
  /\ monitor' = [d \in Daemon |-> IF d \in fresh /\ monitor[d] = "none"
                                  THEN "top" ELSE monitor[d]]
  /\ fresh' = {} /\ binding' = {}

(* Every socket is bound: the tokens are published to all the specs.       *)
Binds ==
  /\ stop = "no" /\ fresh # {}
  /\ issued' = IF binding = {} THEN issued ELSE issued + 1
  /\ issued' <= MaxTokens
  /\ lane' = [p \in Plugin |-> IF p \in binding THEN issued' ELSE lane[p]]
  /\ env' = [d \in Daemon |-> IF d \in specs \cup fresh THEN lane'[Owner[d]] ELSE env[d]]
  /\ Supervises
  /\ UNCHANGED <<installed, native, stop, doomed, procs, child, fast>>

(* A bind fails or times out: the sockets of this call are shut down, the  *)
(* specs lose their tokens - all of them when this was the first call -    *)
(* and the daemons are supervised without.                                 *)
Scrubbed == IF created THEN fresh ELSE specs \cup fresh
BindFails ==
  /\ stop = "no" /\ binding # {}
  /\ lane' = [p \in Plugin |-> IF p \in binding THEN 0 ELSE lane[p]]
  /\ env' = [d \in Daemon |-> IF d \in Scrubbed THEN 0 ELSE env[d]]
  /\ Supervises
  /\ UNCHANGED <<installed, native, issued, stop, doomed, procs, child, fast>>

-------------------------------------------------------------------------------
(* The monitor of a daemon, and its child.                                 *)

Running == stop # "exited"
Goes(d, pc) == monitor' = [monitor EXCEPT ![d] = pc]
KidIs(d, state) == kid' = [kid EXCEPT ![d] = state]

(* The head of the loop.                                                   *)
Starts(d) ==
  /\ Running /\ monitor[d] = "top"
  /\ Goes(d, IF stop = "no" THEN "spawn" ELSE "done")
  /\ UNCHANGED <<loop, stop, doomed, procs, child, fast>>

(* Mutant: only a child that ran is restarted, not one that never spawned. *)
Judges_GivesUp(d, n) ==
  /\ fast' = [fast EXCEPT ![d] = n]
  /\ Goes(d, CASE n = MaxFast -> "failed"
               [] n < MaxFast /\ (stop # "no" \/ monitor[d] = "spawn") -> "done"
               [] OTHER -> "backoff")

(* After an exit or a failed spawn: the circuit breaker, or a backoff.     *)
Judges(d, n) ==
  /\ fast' = [fast EXCEPT ![d] = n]
  /\ Goes(d, CASE n = MaxFast -> "failed"
               [] n < MaxFast /\ stop # "no" -> "done"
               [] OTHER -> "backoff")

SpawnFails(d) ==
  /\ Running /\ monitor[d] = "spawn"
  /\ Judges(d, fast[d] + 1)
  /\ UNCHANGED <<loop, stop, doomed, procs, child>>

Spawns(d) ==
  /\ Running /\ monitor[d] = "spawn"
  /\ KidIs(d, "alive")
  /\ token' = [token EXCEPT ![d] = env[d]]
  /\ Goes(d, "register")
  /\ UNCHANGED <<loop, stop, doomed, procs, fast>>

Registers(d) ==
  /\ Running /\ monitor[d] = "register"
  /\ procs' = procs \cup {d}
  /\ Goes(d, "watch")
  /\ UNCHANGED <<loop, stop, doomed, child, fast>>

(* A child exits by itself, or of a SIGTERM.                               *)
KidExits(d) ==
  /\ Alive(d)
  /\ KidIs(d, "dead")
  /\ UNCHANGED <<loop, stop, doomed, monitor, procs, token, fast>>

(* poll() tells of the exit, and the child is taken out of the table: it   *)
(* ran long enough, or failed fast.  stop() may take it in between, and    *)
(* then finds it as dead as before.                                        *)
SeesExit(d) ==
  /\ Running /\ monitor[d] = "watch" /\ ~Alive(d)
  /\ procs' = procs \ {d}
  /\ \E n \in {0, fast[d] + 1} : Judges(d, n)
  /\ UNCHANGED <<loop, stop, doomed, child>>

(* Mutant: the monitor leaves every child to stop().                       *)
SeesStop_Leaves(d) ==
  /\ Running /\ monitor[d] = "watch" /\ stop # "no"
  /\ procs' = procs \ {d}
  /\ Goes(d, "done")
  /\ UNCHANGED <<loop, stop, doomed, child, fast>>

(* The supervisor stops while the child lives.  A child that stop() did    *)
(* not take, for it was registered too late, is the monitor's to end.      *)
SeesStop(d) ==
  /\ Running /\ monitor[d] = "watch" /\ stop # "no"
  /\ procs' = procs \ {d}
  /\ Goes(d, IF d \in procs THEN "straggler" ELSE "done")
  /\ UNCHANGED <<loop, stop, doomed, child, fast>>

(* _terminate: SIGTERM, and after the grace period SIGKILL.                *)
EndsStraggler(d) ==
  /\ Running /\ monitor[d] = "straggler"
  /\ KidIs(d, IF Alive(d) THEN "termed" ELSE kid[d])
  /\ Goes(d, IF Alive(d) THEN "kill" ELSE "done")
  /\ UNCHANGED <<loop, stop, doomed, procs, token, fast>>

KillsStraggler(d) ==
  /\ Running /\ monitor[d] = "kill"
  /\ KidIs(d, "dead")
  /\ Goes(d, "done")
  /\ UNCHANGED <<loop, stop, doomed, procs, token, fast>>

(* The backoff ends, or the stop ends it.                                  *)
BackedOff(d) ==
  /\ Running /\ monitor[d] = "backoff"
  /\ Goes(d, IF stop = "no" THEN "top" ELSE "done")
  /\ UNCHANGED <<loop, stop, doomed, procs, child, fast>>

-------------------------------------------------------------------------------
(* The end of main(): the server has returned, and with it every reload;   *)
(* the boot's ensure_daemons is cancelled where it awaits its sockets.     *)

StopSets ==
  /\ stop = "no" /\ stop' = "set"
  /\ fresh' = {} /\ binding' = {}
  /\ UNCHANGED <<installed, native, created, specs, lane, env, issued>>
  /\ UNCHANGED <<doomed, monitor, procs, child, fast>>

(* stop() takes the registered children and sends them SIGTERM.            *)
StopTakes ==
  /\ stop = "set" /\ stop' = "reap"
  /\ doomed' = procs /\ procs' = {}
  /\ kid' = [d \in Daemon |-> IF d \in procs /\ Alive(d) THEN "termed" ELSE kid[d]]
  /\ UNCHANGED <<loop, monitor, token, fast>>

(* It has exited within the grace period, or is killed.                    *)
StopReaps(d) ==
  /\ stop = "reap" /\ d \in doomed
  /\ doomed' = doomed \ {d}
  /\ KidIs(d, "dead")
  /\ UNCHANGED <<loop, stop, monitor, procs, token, fast>>

(* join() gives a thread three seconds.  Only one that waits for a child   *)
(* to die of its SIGTERM is taken to need longer.                          *)
Joined(d) == monitor[d] \in {"none", "failed", "done", "kill"}
StopJoins ==
  /\ stop = "reap" /\ doomed = {}
  /\ \A d \in Daemon : Joined(d)
  /\ stop' = "lanes"
  /\ UNCHANGED <<loop, doomed, monitor, procs, child, fast>>

(* The sockets are shut down, and the process ends with its threads.       *)
Exits ==
  /\ stop = "lanes" /\ stop' = "exited"
  /\ lane' = [p \in Plugin |-> 0]
  /\ env' = [d \in Daemon |-> 0]
  /\ UNCHANGED <<installed, native, created, fresh, binding, specs, issued>>
  /\ UNCHANGED <<doomed, monitor, procs, child, fast>>

-------------------------------------------------------------------------------
MonitorStep(d) ==
  \/ Starts(d) \/ SpawnFails(d) \/ Spawns(d) \/ Registers(d) \/ SeesExit(d)
  \/ SeesStop(d) \/ EndsStraggler(d) \/ KillsStraggler(d) \/ BackedOff(d)

StopStep == StopTakes \/ StopJoins \/ Exits \/ \E d \in Daemon : StopReaps(d)

EnsureStep == Discovers \/ Binds \/ BindFails

Next ==
  \/ \E p \in Plugin : Installs(p)
  \/ EnsureStep
  \/ \E d \in Daemon : MonitorStep(d) \/ KidExits(d)
  \/ StopSets \/ StopStep

(* Threads are scheduled, a shutdown that has begun is carried through,    *)
(* and the calls of the event loop return.  Nothing makes a child exit.    *)
Fairness ==
  /\ \A d \in Daemon : WF_vars(MonitorStep(d))
  /\ WF_vars(StopStep)
  /\ WF_vars(Binds \/ BindFails)

Spec == Init /\ [][Next]_vars /\ Fairness

-------------------------------------------------------------------------------
(* A child that lives is always somebody's to end: its monitor has yet to  *)
(* register it, or watches it in _procs, or ends it as a straggler, or     *)
(* stop() has taken it - whichever way the spawn races the snapshot of     *)
(* stop() (plugin_daemons.py:391-409, 526-533).                            *)
LiveIsOwned ==
  \A d \in Daemon : Alive(d) =>
    \/ monitor[d] \in {"register", "straggler", "kill"}
    \/ monitor[d] = "watch" /\ d \in procs
    \/ d \in doomed

(* And never two sides': the pops are atomic, so stop() and the monitor do *)
(* not both signal a child, one of them after the other has reaped it and  *)
(* the pid has gone to somebody else.                                      *)
OneReaper ==
  \A d \in doomed : d \notin procs /\ monitor[d] \notin {"register", "straggler", "kill"}

(* A child with a token of a socket can use it: the socket is bound with   *)
(* that token until the shutdown, however many hot installs have come, or  *)
(* have failed and been rolled back, since the child was spawned           *)
(* (channel_events.py:562-649).                                            *)
TokenIsServed ==
  \A d \in Daemon :
    Alive(d) /\ token[d] # 0 /\ stop # "exited" => lane[Owner[d]] = token[d]

(* What survives the process is a child that ignores SIGTERM and whose     *)
(* monitor, which found it after stop() had looked, was still in the grace *)
(* period when the join gave up (plugin_daemons.py:405, 551).              *)
SurvivorHasCause ==
  \A d \in Daemon : stop = "exited" /\ Alive(d) => monitor[d] = "kill"

(* Every child has one owner and a socket that is served, up to the end of *)
(* the process and, but for that one cause, not beyond it.                 *)
ChildrenAreKept == LiveIsOwned /\ OneReaper /\ TokenIsServed /\ SurvivorHasCause

(* A daemon whose child is dead is revived, unless its breaker has tripped *)
(* or the workspace stops.                                                 *)
Revives ==
  \A d \in Daemon :
    monitor[d] # "none" /\ ~Alive(d)
      ~> Alive(d) \/ monitor[d] = "failed" \/ stop # "no"

(* A shutdown ends, whatever the children do and wherever the monitors     *)
(* stood when it began.                                                    *)
StopFinishes == stop # "no" ~> stop = "exited"

(* Neither the work of the daemons nor their shutdown is held up for ever. *)
DaemonsGoOn == Revives /\ StopFinishes
=============================================================================
