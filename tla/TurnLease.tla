------------------------------- MODULE TurnLease -------------------------------
(***************************************************************************)
(* The liveness of a turn: turn_lease.py (the lease with its two clocks,   *)
(* the scopes that arm it, the watcher of the activity file), the scope    *)
(* around every execute (turn_lease_executor.py) and around run_agent      *)
(* (subprocess_executor.py), the idle cap of the native executor, and the  *)
(* snapshot that a trigger daemon reads (channel_events.py).               *)
(*                                                                         *)
(* Time is counted in units; a clock stops one unit after the limit it is  *)
(* compared with, where a larger value makes no difference.  The executor  *)
(* is one of three flavours: native; a subprocess executor, which enters   *)
(* the scope a second time; or one of a template, which does not.  The     *)
(* mailbox kernel is on, for otherwise there is no lease.                  *)
(***************************************************************************)
EXTENDS Naturals, FiniteSets

CONSTANTS
  Task,    \* the asyncio tasks of execute, one per delivery
  Context, \* the conversations
  NoContext,
  Ttl,     \* _ttl
  Cap,     \* _absolute_cap
  IdleCap  \* A2A_COMPLETION_IDLE_TIMEOUT_SECONDS

ASSUME LeaseAssumption == {Ttl, Cap, IdleCap} \subseteq Nat \ {0}

VARIABLES
  flavour,  \* what execute is, "native", "subprocess" or "template"
  (* The lease: *)
  idle,     \* the time since _last_touch
  turnAge,  \* the time since _turn_start
  observed, \* _activity_touches > 0
  file,     \* the activity file: none, its mtime seen, or newer than that
  (* The tasks: *)
  pc,       \* where a task stands
  context,  \* the conversation of a delivery
  scopes,   \* _ACTIVE_SCOPES, 0 for no entry
  watchers, \* the tasks whose watcher of the activity file runs
  wait,     \* how long a native turn has waited for an event of its stream
  (* Kept for the properties only: *)
  quiet,    \* the time since the last activity
  armed,    \* the tasks for which the lease was armed
  age,      \* the time since then
  silent,   \* the time since a native turn had an event
  overlaid, \* the tasks in whose time a native turn of another task began
  wronged,  \* the tasks judged dead in spite of recent activity
  declined  \* those with a scope to themselves that was not the outermost

lease == <<idle, turnAge, observed, file>>
judged == <<quiet, age, silent>>
vars == <<flavour, lease, pc, context, scopes, watchers, wait, judged,
          armed, overlaid, wronged, declined>>

Live(t) == pc[t] \in {"entered", "turn", "leaving"}
InTurn(t) == pc[t] \in {"turn", "leaving"}
InFlight(c) == \E t \in Task : InTurn(t) /\ context[t] = c
AtMost(n, limit) == IF n < limit THEN n ELSE limit

TypeOK ==
  /\ flavour \in {"native", "subprocess", "template"}
  /\ idle \in 0..(Ttl + 1) /\ turnAge \in 0..(Cap + 1)
  /\ observed \in BOOLEAN
  /\ file \in {"none", "seen", "newer"}
  /\ pc \in [Task -> {"new", "entered", "turn", "leaving", "done"}]
  /\ context \in [Task -> Context \cup {NoContext}]
  /\ scopes \in [Task -> 0..2]
  /\ watchers \subseteq Task
  /\ wait \in [Task -> 0..IdleCap]
  /\ quiet \in 0..(Ttl + 1)
  /\ age \in [Task -> 0..(Cap + 1)]
  /\ silent \in [Task -> 0..(Cap + IdleCap + 1)]
  /\ {armed, overlaid, wronged, declined} \subseteq SUBSET Task

(* The activity file of an earlier process may have survived in the        *)
(* mailbox directory: its mtime is newer than the watermark 0.0.           *)
Init ==
  /\ flavour \in {"native", "subprocess", "template"}
  /\ idle = 0 /\ turnAge = 0 /\ observed = FALSE
  /\ file \in {"none", "newer"}
  /\ pc = [t \in Task |-> "new"]
  /\ context = [t \in Task |-> NoContext]
  /\ scopes = [t \in Task |-> 0]
  /\ watchers = {}
  /\ wait = [t \in Task |-> 0]
  /\ quiet = Ttl + 1
  /\ age = [t \in Task |-> 0]
  /\ silent = [t \in Task |-> 0]
  /\ armed = {} /\ overlaid = {} /\ wronged = {} /\ declined = {}

-----------------------------------------------------------------------------
(* The lease.                                                              *)

(* touch: the idle clock only.                                             *)
Touched_Both == idle' = 0 /\ turnAge' = 0 /\ observed' = TRUE
Touched == idle' = 0 /\ observed' = TRUE /\ UNCHANGED turnAge

(* feed_from_activity_file: a touch, if the mtime has advanced.            *)
Fed ==
  IF file = "newer" THEN Touched /\ file' = "seen" ELSE UNCHANGED lease

(* reset, on behalf of t: both clocks.                                     *)
ResetFor(t) ==
  /\ idle' = 0 /\ turnAge' = 0
  /\ armed' = armed \cup {t}
  /\ age' = [age EXCEPT ![t] = 0]

(* The verdict, after the file was looked at.                              *)
Alive == turnAge' <= Cap /\ idle' <= Ttl

(* t is not alive, though it is not too old and there was activity, or its *)
(* start, within the last Ttl units.                                       *)
Wronged(t) ==
  /\ ~Alive
  /\ t \in armed \ overlaid
  /\ age[t] <= Cap
  /\ quiet <= Ttl \/ age[t] <= Ttl

-----------------------------------------------------------------------------
(* turn_liveness_scope.                                                    *)

(* The registry without the tasks that are done.                           *)
Pruned_Not == scopes
Pruned == [t \in Task |-> IF Live(t) THEN scopes[t] ELSE 0]

(* ensure_tool_activity_file, then baseline_activity_file: the file exists *)
(* and its mtime is the watermark.                                         *)
Baselined == file' = "seen"

(* arm_turn_if_fed.                                                        *)
ArmsIfFed(t) ==
  IF observed THEN ResetFor(t) ELSE UNCHANGED <<idle, turnAge, armed, age>>

(* A task enters the scope.  Only the outermost one sets anything up.      *)
EntersScope(t) ==
  /\ scopes' = [Pruned EXCEPT ![t] = @ + 1]
  /\ UNCHANGED observed
  /\ IF \A u \in Task : Pruned[u] = 0
     THEN /\ Baselined /\ ArmsIfFed(t)
          /\ watchers' = watchers \cup {t}
     ELSE UNCHANGED <<file, idle, turnAge, armed, age, watchers>>

(* A delivery: the wrapper's scope.                                        *)
Delivers(t) ==
  /\ pc[t] = "new"
  /\ pc' = [pc EXCEPT ![t] = "entered"]
  /\ \E c \in Context : context' = [context EXCEPT ![t] = c]
  /\ EntersScope(t)
  /\ declined' = IF (\A u \in Task : ~Live(u)) /\ t \notin watchers'
                   THEN declined \cup {t} ELSE declined
  /\ UNCHANGED <<flavour, wait, quiet, silent, overlaid, wronged>>

(* run_agent: the scope of the subprocess executor, nested in the other.   *)
RunsAgent(t) ==
  /\ flavour = "subprocess"
  /\ pc[t] = "entered"
  /\ pc' = [pc EXCEPT ![t] = "turn"]
  /\ EntersScope(t)
  /\ UNCHANGED <<flavour, context, wait, quiet, silent, overlaid, wronged,
                 declined>>

(* An executor of a template begins its turn.                              *)
RunsTemplate(t) ==
  /\ flavour = "template"
  /\ pc[t] = "entered"
  /\ pc' = [pc EXCEPT ![t] = "turn"]
  /\ UNCHANGED <<flavour, lease, context, scopes, watchers, wait, judged,
                 armed, overlaid, wronged, declined>>

(* The native executor begins a turn, the only one of its conversation: it *)
(* resets the lease whoever else holds it, and starts a watcher.           *)
RunsNative(t) ==
  /\ flavour = "native"
  /\ pc[t] = "entered"
  /\ ~InFlight(context[t])
  /\ pc' = [pc EXCEPT ![t] = "turn"]
  /\ ResetFor(t)
  /\ file' = IF file = "none" THEN "newer" ELSE file
  /\ watchers' = watchers \cup {t}
  /\ wait' = [wait EXCEPT ![t] = 0]
  /\ silent' = [silent EXCEPT ![t] = 0]
  /\ overlaid' = {u \in Task : Live(u)} \ {t}
  /\ UNCHANGED <<flavour, observed, context, scopes, quiet, wronged, declined>>

(* What is kept about the turn of t and about t ends with them.            *)
TurnOver(t) ==
  /\ wait' = [wait EXCEPT ![t] = 0]
  /\ silent' = [silent EXCEPT ![t] = 0]

TaskOver(t) ==
  /\ pc' = [pc EXCEPT ![t] = "done"]
  /\ context' = [context EXCEPT ![t] = NoContext]
  /\ armed' = armed \ {t} /\ overlaid' = overlaid \ {t}
  /\ age' = [age EXCEPT ![t] = 0]

(* The end of a turn; run_agent leaves its scope.                          *)
TurnEnds(t) ==
  /\ pc[t] = "turn"
  /\ pc' = [pc EXCEPT ![t] = "leaving"]
  /\ scopes' = [scopes EXCEPT ![t] = IF @ = 2 THEN 1 ELSE @]
  /\ TurnOver(t)
  /\ UNCHANGED <<flavour, lease, context, watchers, quiet, age, armed,
                 overlaid, wronged, declined>>

(* execute returns, at once if the delivery was dropped, deferred or       *)
(* empty.                                                                  *)
Returns(t) ==
  /\ pc[t] \in {"entered", "leaving"}
  /\ TaskOver(t)
  /\ scopes' = [scopes EXCEPT ![t] = 0]
  /\ watchers' = watchers \ {t}
  /\ UNCHANGED <<flavour, lease, wait, quiet, silent, wronged, declined>>

(* The task ends without leaving its scope.                                *)
Abandons(t) ==
  /\ Live(t)
  /\ TaskOver(t) /\ TurnOver(t)
  /\ UNCHANGED <<flavour, lease, scopes, watchers, quiet, wronged, declined>>

-----------------------------------------------------------------------------
(* Activity.                                                               *)

(* The stream of a native turn: an event, of a tool or not.                *)
Streams(t) ==
  /\ flavour = "native" /\ pc[t] = "turn"
  /\ wait' = [wait EXCEPT ![t] = 0]
  /\ silent' = [silent EXCEPT ![t] = 0]
  /\ \/ Touched /\ quiet' = 0
     \/ UNCHANGED <<idle, turnAge, observed, quiet>>
  /\ UNCHANGED <<flavour, file, pc, context, scopes, watchers, age, armed,
                 overlaid, wronged, declined>>

(* record_tool_activity: the child of a turn, perhaps one that outlived    *)
(* it, bumps the file.                                                     *)
Bumps ==
  /\ \E t \in Task : pc[t] # "new"
  /\ file' = "newer"
  /\ quiet' = 0
  /\ UNCHANGED <<flavour, idle, turnAge, observed, pc, context, scopes, watchers,
                 wait, age, silent, armed, overlaid, wronged, declined>>

Watches ==
  /\ watchers # {}
  /\ Fed
  /\ UNCHANGED <<flavour, pc, context, scopes, watchers, wait, judged,
                 armed, overlaid, wronged, declined>>

(* The snapshot of the lease, at any time.                                 *)
Probes ==
  /\ Fed
  /\ wronged' = wronged \cup {t \in Task : Live(t) /\ Wronged(t)}
  /\ UNCHANGED <<flavour, pc, context, scopes, watchers, wait, judged,
                 armed, overlaid, declined>>

(* turn_is_alive_despite_idle: no event for IdleCap units.                 *)
Gates(t) ==
  /\ flavour = "native" /\ pc[t] = "turn"
  /\ wait[t] = IdleCap
  /\ Fed
  /\ IF Alive THEN wait' = [wait EXCEPT ![t] = 0] /\ UNCHANGED <<pc, silent>>
              ELSE pc' = [pc EXCEPT ![t] = "leaving"] /\ TurnOver(t)
  /\ wronged' = IF Wronged(t) THEN wronged \cup {t} ELSE wronged
  /\ UNCHANGED <<flavour, context, scopes, watchers, quiet, age, armed,
                 overlaid, declined>>

(* A unit of time passes.  The wait for an event ends when it is over.     *)
Ticks ==
  /\ \A t \in Task : flavour = "native" /\ pc[t] = "turn" => wait[t] < IdleCap
  /\ idle' = AtMost(idle + 1, Ttl + 1)
  /\ turnAge' = AtMost(turnAge + 1, Cap + 1)
  /\ quiet' = AtMost(quiet + 1, Ttl + 1)
  /\ age' = [t \in Task |-> IF t \in armed THEN AtMost(age[t] + 1, Cap + 1) ELSE age[t]]
  /\ wait' = [t \in Task |-> IF flavour = "native" /\ pc[t] = "turn"
                               THEN wait[t] + 1 ELSE wait[t]]
  /\ silent' = [t \in Task |-> IF flavour = "native" /\ pc[t] = "turn"
                                 THEN AtMost(silent[t] + 1, Cap + IdleCap + 1)
                                 ELSE silent[t]]
  /\ UNCHANGED <<flavour, observed, file, pc, context, scopes, watchers,
                 armed, overlaid, wronged, declined>>

Next ==
  \/ \E t \in Task :
       \/ Delivers(t) \/ RunsAgent(t) \/ RunsTemplate(t) \/ RunsNative(t)
       \/ TurnEnds(t) \/ Returns(t) \/ Abandons(t)
       \/ Streams(t) \/ Gates(t)
  \/ Bumps \/ Watches \/ Probes \/ Ticks

Spec == Init /\ [][Next]_vars

-----------------------------------------------------------------------------
(* The lease keeps the date of the turn it was armed for: no delivery that *)
(* is dropped, nested or overlapping moves its absolute clock.  (A turn of *)
(* another conversation on the native executor does.)                      *)
DatedToTurn ==
  \A t \in armed \ overlaid : turnAge = age[t]

(* Whatever touches the lease, a native turn without an event is given up  *)
(* at the first timeout past the absolute cap.                             *)
CapIsFinal ==
  \A t \in Task \ overlaid :
    flavour = "native" /\ pc[t] = "turn" => silent[t] <= Cap + IdleCap

(* Neither the idle cap nor a snapshot finds a turn dead, within the cap,  *)
(* for which there was activity in the last Ttl units.                     *)
FedIsAlive == wronged = {}

(* The lease tells a turn that works from one that hangs: it is dated to   *)
(* the turn, its cap is final, and within the cap activity keeps it alive. *)
LeaseIsTrue == DatedToTurn /\ CapIsFinal /\ FedIsAlive

(* A scope that was abandoned stops no later turn from having its own.     *)
LeakHeals == declined = {}

=============================================================================
