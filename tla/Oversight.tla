------------------------------ MODULE Oversight ------------------------------
(***************************************************************************)
(* What keeps the agent's own tools in check (builtin_tools/approval.py,   *)
(* hitl.py, audit.py, sandbox.py, proc_group.py): tools that run after a   *)
(* human has approved them, tasks that pause until they are resumed, and   *)
(* code that runs in a process of its own until it ends or its time is up. *)
(***************************************************************************)
EXTENDS Naturals, FiniteSets

CONSTANTS
    Gated,          \* calls of tools that need an approval
    Task,           \* identifiers of tasks that are paused
    Pause,          \* calls of pause_task
    NoPause,        \* none of them
    Script,         \* calls of run_code
    NoScript,       \* none of them
    Roles           \* sets of roles a workspace may have

ASSUME OversightAssumption == NoPause \notin Pause /\ NoScript \notin Script

VARIABLES
    policy,         \* what the approvals of this process go by
    gate,           \* the calls of gated tools
    decision,       \* the platform's approvals
    news,           \* decisions on their way through a call's websocket
    runs,           \* history: how often a gated tool ran
    raised,         \* history: gated tools that ran without approval, and raised
    pause,          \* the calls of pause_task
    entry,          \* _TaskPauseRegistry._events: the call whose event it holds
    resumed,        \* history: the calls a resume said it had woken
    script,         \* the calls of run_code and their process groups
    current,        \* current_subprocess of the conversation: the call whose process it is
    watched,        \* the call whose process a Stop has asked to end
    displaced       \* history: calls whose place another call's process has taken

gates == <<policy, gate, decision, news, runs, raised>>
pauses == <<pause, entry, resumed>>
scripts == <<script, current, watched, displaced>>
oversight == <<gates, pauses, scripts>>

OversightTypeOK ==
    /\ policy \in [roles : Roles, bypass : Roles, config : {"unread", "read", "lost"}, websocket : BOOLEAN]
    /\ gate \in [Gated -> {"new", "ask", "create", "connect", "listen", "poll", "granted", "over"}]
    /\ decision \in [Gated -> {"none", "pending", "approved", "denied"}]
    /\ news \in [Gated -> SUBSET Gated]
    /\ runs \in [Gated -> Nat] /\ raised \in SUBSET Gated
    /\ pause \in [Pause -> [at : {"new", "waiting", "over"}, task : Task, set : BOOLEAN, woken : BOOLEAN]]
    /\ entry \in [Task -> Pause \cup {NoPause}] /\ resumed \in SUBSET Pause
    /\ script \in [Script -> [at : {"new", "running", "killing", "ending", "over"},
                              child : {"none", "alive", "rest", "dead"},
                              inTurn : BOOLEAN, abandoned : BOOLEAN]]
    /\ {current, watched} \subseteq Script \cup {NoScript} /\ displaced \in SUBSET Script

OversightInit ==
    /\ policy \in [roles : Roles, bypass : Roles, config : {"unread"}, websocket : BOOLEAN]
    /\ gate = [g \in Gated |-> "new"] /\ decision = [g \in Gated |-> "none"]
    /\ news = [g \in Gated |-> {}] /\ runs = [g \in Gated |-> 0] /\ raised = {}
    /\ \E t \in Task : pause = [p \in Pause |-> [at |-> "new", task |-> t, set |-> FALSE, woken |-> FALSE]]
    /\ entry = [t \in Task |-> NoPause] /\ resumed = {}
    /\ script = [s \in Script |-> [at |-> "new", child |-> "none", inTurn |-> FALSE,
                                  abandoned |-> FALSE]]
    /\ current = NoScript /\ watched = NoScript /\ displaced = {}

(***************************************************************************)
(* Roles and permissions.                                                  *)
(***************************************************************************)
\* The configuration is read once for the life of the process: a workspace
\* whose configuration could not be read stays read-only.
HeldRoles(config) == IF config = "lost" THEN {"read-only"} ELSE policy.roles

\* The roles whose built-in permissions include "approve".
MayApprove(roles) == roles \cap {"admin", "operator", "no-delegation"} # {}

ReadsConfig(config) ==
    /\ config \in IF policy.config = "unread" THEN {"read", "lost"} ELSE {policy.config}
    /\ policy' = [policy EXCEPT !.config = config]

(***************************************************************************)
(* requires_approval and request_approval.                                 *)
(***************************************************************************)
Steps(g, at) == gate' = [gate EXCEPT ![g] = at]

Run(g) == runs' = [runs EXCEPT ![g] = @ + 1]

\* A bypassed tool that raises falls through to the approval, like a failing
\* check of the roles, and runs once more if it is granted.
CallGated(g) ==
    /\ gate[g] = "new"
    /\ \E config \in {"unread", "read", "lost"} :
          IF policy.bypass = {}
          THEN config = policy.config /\ policy' = policy /\ Steps(g, "ask") /\ UNCHANGED <<runs, raised>>
          ELSE /\ ReadsConfig(config)
               /\ IF HeldRoles(config) \cap policy.bypass # {}
                  THEN /\ Run(g)
                       /\ \/ Steps(g, "over") /\ UNCHANGED raised
                          \/ Steps(g, "ask") /\ raised' = raised \cup {g}
                  ELSE Steps(g, "ask") /\ UNCHANGED <<runs, raised>>
    /\ UNCHANGED <<decision, news, pauses, scripts>>

AskApproval(g) ==
    /\ gate[g] = "ask"
    /\ \E config \in {"read", "lost"} :
          /\ ReadsConfig(config)
          /\ Steps(g, IF MayApprove(HeldRoles(config)) THEN "create" ELSE "over")
    /\ UNCHANGED <<decision, news, runs, raised, pauses, scripts>>

\* The platform may have the request although its answer was lost.
CreateApproval(g) ==
    /\ gate[g] = "create"
    /\ \/ /\ Steps(g, IF policy.websocket THEN "connect" ELSE "poll")
          /\ decision' = [decision EXCEPT ![g] = "pending"]
       \/ Steps(g, "over") /\ decision' \in {decision, [decision EXCEPT ![g] = "pending"]}
    /\ UNCHANGED <<policy, news, runs, raised, pauses, scripts>>

\* A decision reaches the calls that listen by then, each of them.
Decide(g, verdict) ==
    /\ decision[g] = "pending"
    /\ decision' = [decision EXCEPT ![g] = verdict]
    /\ news' = [h \in Gated |-> IF gate[h] = "listen" THEN news[h] \cup {g} ELSE news[h]]
    /\ UNCHANGED <<policy, gate, runs, raised, pauses, scripts>>

Connects(g) ==
    /\ gate[g] = "connect"
    /\ Steps(g, "listen") \/ Steps(g, "poll")
    /\ UNCHANGED <<policy, decision, news, runs, raised, pauses, scripts>>

\* Mutant: the first decision that arrives is taken for this call's.
HearsAny(g) ==
    /\ gate[g] = "listen" /\ news[g] # {}
    /\ \E h \in news[g] : Steps(g, IF decision[h] = "approved" THEN "granted" ELSE "over")
    /\ UNCHANGED <<policy, decision, news, runs, raised, pauses, scripts>>

Hears(g) ==
    /\ gate[g] = "listen" /\ g \in news[g]
    /\ Steps(g, IF decision[g] = "approved" THEN "granted" ELSE "over")
    /\ UNCHANGED <<policy, decision, news, runs, raised, pauses, scripts>>

\* A connection that breaks, and a wait that times out, go on with a poll that
\* has the whole time again; a connection the platform closes leaves no result,
\* and the call fails.
StopsListening(g) ==
    /\ gate[g] = "listen"
    /\ Steps(g, "poll") \/ Steps(g, "over")
    /\ UNCHANGED <<policy, decision, news, runs, raised, pauses, scripts>>

PollsDecision(g) ==
    /\ gate[g] = "poll"
    /\ \/ decision[g] = "approved" /\ Steps(g, "granted")
       \/ decision[g] = "denied" /\ Steps(g, "over")
       \/ Steps(g, "over")
    /\ UNCHANGED <<policy, decision, news, runs, raised, pauses, scripts>>

RunsGranted(g) ==
    /\ gate[g] = "granted"
    /\ Run(g) /\ Steps(g, "over")
    /\ UNCHANGED <<policy, decision, news, raised, pauses, scripts>>

(***************************************************************************)
(* pause_task and resume_task.  A second pause of a task takes the place   *)
(* of the first in the registry, and whichever ends first clears it.       *)
(***************************************************************************)
PauseTask(p, t) ==
    /\ pause[p].at = "new"
    /\ pause' = [pause EXCEPT ![p] = [@ EXCEPT !.at = "waiting", !.task = t]]
    /\ entry' = [entry EXCEPT ![t] = p]
    /\ UNCHANGED <<resumed, gates, scripts>>

ResumeTask(t) ==
    /\ entry[t] # NoPause
    /\ pause' = [pause EXCEPT ![entry[t]].set = TRUE]
    /\ resumed' = resumed \cup {entry[t]}
    /\ UNCHANGED <<entry, gates, scripts>>

EndsPause(p, woken) ==
    /\ pause' = [pause EXCEPT ![p] = [@ EXCEPT !.at = "over", !.woken = woken]]
    /\ entry' = [entry EXCEPT ![pause[p].task] = NoPause]

Wakes(p) ==
    /\ pause[p].at = "waiting" /\ pause[p].set
    /\ EndsPause(p, TRUE)
    /\ UNCHANGED <<resumed, gates, scripts>>

\* The time is up, or the turn that waits is cancelled.
PauseExpires(p) ==
    /\ pause[p].at = "waiting"
    /\ EndsPause(p, FALSE)
    /\ UNCHANGED <<resumed, gates, scripts>>

(***************************************************************************)
(* run_code.  A process is registered with the conversation of its turn,   *)
(* which has one place for it; one that no turn started is not registered. *)
(* A process leads a group; "rest" says that it is gone and the group not. *)
(***************************************************************************)
RunsCode(s) ==
    /\ script[s].at = "new"
    /\ \/ \E inTurn \in BOOLEAN :
             /\ script' = [script EXCEPT ![s] = [@ EXCEPT !.at = "running", !.child = "alive", !.inTurn = inTurn]]
             /\ current' = IF inTurn THEN s ELSE current
             /\ displaced' = IF inTurn THEN (displaced \cup {current}) \ {NoScript} ELSE displaced
       \/ script' = [script EXCEPT ![s].at = "over"] /\ UNCHANGED <<current, displaced>>
    /\ UNCHANGED <<watched, gates, pauses>>

\* A group that is left may keep the output open, and the call waits on.
LeaderEnds(s) ==
    /\ script[s].child = "alive"
    /\ \E child \in {"rest", "dead"} : script' = [script EXCEPT ![s].child = child]
    /\ UNCHANGED <<current, watched, displaced, gates, pauses>>

\* What has let go of the output is not waited for.
CodeEnds(s) ==
    /\ script[s].at = "running"
    /\ \E child \in {"rest", "dead"} :
          /\ script[s].child = "dead" => child = "dead"
          /\ script' = [script EXCEPT ![s].child = child, ![s].at = "ending"]
    /\ UNCHANGED <<current, watched, displaced, gates, pauses>>

CodeExpires(s) ==
    /\ script[s].at = "running"
    /\ script' = [script EXCEPT ![s].at = "killing"]
    /\ UNCHANGED <<current, watched, displaced, gates, pauses>>

\* The whole group: asked to end, given a grace period, killed, and reaped.
Terminates(s) ==
    /\ script[s].at = "killing"
    /\ script' = [script EXCEPT ![s].child = "dead", ![s].at = "ending"]
    /\ UNCHANGED <<current, watched, displaced, gates, pauses>>

\* Mutant: whatever process is registered is taken out.
ClearsAny(s) == current' = NoScript

\* clear_active_subprocess: only the process that is registered.
Clears(s) == current' = IF current = s THEN NoScript ELSE current

GivesUpHandle(s) ==
    /\ script[s].at = "ending"
    /\ script' = [script EXCEPT ![s].at = "over"]
    /\ Clears(s)
    /\ UNCHANGED <<watched, displaced, gates, pauses>>

\* Cancelling the task that waits gives up the handle and kills nothing; nor
\* does an exception of the wait.
CodeAbandoned(s) ==
    /\ script[s].at \in {"running", "killing"}
    /\ script' = [script EXCEPT ![s] = [@ EXCEPT !.at = "over", !.abandoned = TRUE]]
    /\ Clears(s)
    /\ UNCHANGED <<watched, displaced, gates, pauses>>

\* Stop asks the process itself to end, which may ignore it.
StopTerminates ==
    /\ current # NoScript /\ watched = NoScript /\ script[current].child = "alive"
    /\ \E child \in {"alive", "rest", "dead"} : script' = [script EXCEPT ![current].child = child]
    /\ watched' = current
    /\ UNCHANGED <<current, displaced, gates, pauses>>

\* Two seconds later the process that is registered by then is killed, when the
\* one that was asked has not ended.
StopKills ==
    /\ watched # NoScript /\ watched' = NoScript
    /\ IF script[watched].child = "alive" /\ current # NoScript /\ script[current].child = "alive"
       THEN \E child \in {"rest", "dead"} : script' = [script EXCEPT ![current].child = child]
       ELSE UNCHANGED script
    /\ UNCHANGED <<current, displaced, gates, pauses>>

GatesNext ==
    \/ \E g \in Gated :
          \/ CallGated(g) \/ AskApproval(g) \/ CreateApproval(g) \/ Connects(g) \/ Hears(g)
          \/ StopsListening(g) \/ PollsDecision(g) \/ RunsGranted(g)
    \/ \E g \in Gated, verdict \in {"approved", "denied"} : Decide(g, verdict)

PausesNext ==
    \/ \E p \in Pause, t \in Task : PauseTask(p, t)
    \/ \E t \in Task : ResumeTask(t)
    \/ \E p \in Pause : Wakes(p) \/ PauseExpires(p)

ScriptsNext ==
    \/ \E s \in Script :
          \/ RunsCode(s) \/ LeaderEnds(s) \/ CodeEnds(s) \/ CodeExpires(s) \/ Terminates(s)
          \/ GivesUpHandle(s) \/ CodeAbandoned(s)
    \/ StopTerminates \/ StopKills

(***************************************************************************)
(* Properties.                                                             *)
(***************************************************************************)
\* A gated tool runs once for an approval of this very call, once for a role
\* that bypasses the gate, and for no other reason; it runs twice only when the
\* bypassed run raised and a human then approved (hitl.py: requires_approval;
\* approval.py: _wait_websocket, _wait_polling).
RunsOnlyApproved ==
    \A g \in Gated :
        LET bypassed == HeldRoles(policy.config) \cap policy.bypass # {}
            reasons == {x \in {"bypass", "approval"} :
                          IF x = "bypass" THEN bypassed ELSE decision[g] = "approved"}
        IN  /\ runs[g] <= Cardinality(reasons)
            /\ runs[g] = 2 => g \in raised

\* Who waits can be woken: a paused call is the one its task's entry stands
\* for, unless the same task was paused a second time, and no entry outlives
\* its call (hitl.py: _TaskPauseRegistry, pause_task).
WaiterIsListed ==
    /\ \A p \in Pause :
          pause[p].at = "waiting" /\ entry[pause[p].task] # p =>
              \E q \in Pause \ {p} : pause[q].at # "new" /\ pause[q].task = pause[p].task
    /\ \A t \in Task : entry[t] # NoPause => pause[entry[t]].at = "waiting"

\* A process of run_code that is alive can be reached by Stop, unless the call
\* that waited for it was cancelled, no turn had started it, or a second call of
\* the conversation took its place; and Stop reaches no process whose call is
\* over (sandbox.py: _run_subprocess, _run_docker; runtime_inbox.py:
\* register_active_subprocess, clear_active_subprocess).
ChildIsHeld ==
    /\ \A s \in Script :
          script[s].child = "alive" =>
              current = s \/ script[s].abandoned \/ ~script[s].inTurn \/ s \in displaced
    /\ current # NoScript => script[current].at \in {"running", "killing", "ending"}
=============================================================================
