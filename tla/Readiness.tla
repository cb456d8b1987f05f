------------------------------ MODULE Readiness ------------------------------
(***************************************************************************)
(* What a workspace tells the platform of its tools: the prober that lists *)
(* the management MCP server's (mcp_readiness_probe.py), the listing of    *)
(* every declared server at boot (loaded_mcp_tools_probe.py), what they    *)
(* publish (platform_agent_identity.py) and the alive thread that reads it *)
(* into heartbeats (heartbeat.py).  Each published value has a lock of its *)
(* own, and a heartbeat reads one after the other.                         *)
(***************************************************************************)
EXTENDS Naturals

CONSTANTS
    Unset,              \* a list or signal nobody has published
    MaxCaptures,        \* max_attempts of the listing at boot
    MaxChanges          \* bound on the changes of the servers

ASSUME ReadinessAssumption ==
    /\ MaxCaptures \in Nat \ {0} /\ MaxChanges \in Nat
    /\ Unset \notin {"yes", "no"}

ManagementTools == {"provision_workspace"}
ToolId == ManagementTools \cup {"foreign"}
List == (SUBSET ToolId) \cup {{Unset}}
\* A server cannot be started or exits, does not answer in time, or answers.
Health == {"dead", "hangs", "lists"}
\* The management server; its verb shows only in a list.
Management == [health : {"lists"}, verb : BOOLEAN]
                  \cup [health : Health \ {"lists"}, verb : {FALSE}]

VARIABLES
    management,     \* the management server: its health and whether it has the verb
    foreign,        \* the health of another declared server
    changes,
    prober,         \* MCPReadinessProber
    loaded,         \* _loaded_mcp_tools, and who wrote it
    facing,         \* _model_facing_tools
    ready,          \* _mcp_tools_ready and _first_ready_at
    failure,        \* _launch_failure_reason
    capture,        \* the listing at boot
    beat            \* the heartbeat that is being put together

servers == <<management, foreign, changes>>
published == <<loaded, facing, ready, failure>>
readiness == <<servers, prober, published, capture, beat>>

Producer == {"nobody", "prober", "boot", "turn"}

ReadinessTypeOK ==
    /\ management \in Management /\ foreign \in Health /\ changes \in 0..MaxChanges
    /\ prober \in [at : {"idle", "probing", "listed", "seeded", "over"}, found : SUBSET ManagementTools,
                   frozen : BOOLEAN]
    /\ loaded \in [tools : List, by : Producer] /\ facing \in List
    /\ ready \in [signal : {Unset, "yes", "no"}, once : BOOLEAN] /\ failure \in BOOLEAN
    /\ capture \in [at : {"idle", "listing", "facing", "waiting", "over"}, attempt : 0..MaxCaptures]
    /\ beat \in [at : {"idle", "loaded", "facing", "ready", "posted"},
                 loaded : [tools : List, by : Producer], orphaned : List,
                 signal : {Unset, "yes", "no"}, overtaken : BOOLEAN]

NoBeat == [at |-> "idle", loaded |-> [tools |-> {Unset}, by |-> "nobody"],
           orphaned |-> {Unset}, signal |-> Unset, overtaken |-> FALSE]

ReadinessInit ==
    /\ management \in Management /\ foreign \in {"dead", "lists"} /\ changes = 0
    /\ prober = [at |-> "idle", found |-> {}, frozen |-> FALSE]
    /\ loaded = [tools |-> {Unset}, by |-> "nobody"] /\ facing = {Unset}
    /\ ready = [signal |-> Unset, once |-> FALSE] /\ failure = FALSE
    /\ capture = [at |-> "idle", attempt |-> 0]
    /\ beat = NoBeat

Managed == IF management.verb THEN ManagementTools ELSE ManagementTools \ {"provision_workspace"}

\* A plugin is reconciled, npm answers, the control plane stalls.
ServersChange ==
    /\ changes < MaxChanges /\ changes' = changes + 1
    /\ management' \in Management
    /\ UNCHANGED <<foreign, prober, published, capture, beat>>

(***************************************************************************)
(* The prober, a thread of its own.                                        *)
(***************************************************************************)
Probes ==
    /\ prober.at = "idle"
    /\ prober' = [prober EXCEPT !.at = "probing"]
    /\ UNCHANGED <<servers, published, capture, beat>>

\* A probe that fails says nothing: what was published stays.
ProbeFails ==
    /\ prober.at = "probing"
    /\ prober' = [prober EXCEPT !.at = "idle"]
    /\ UNCHANGED <<servers, published, capture, beat>>

ProbeLists ==
    /\ prober.at = "probing" /\ management.health = "lists"
    /\ prober' = [prober EXCEPT !.at = "listed", !.found = Managed]
    /\ UNCHANGED <<servers, published, capture, beat>>

\* Once it has been ready, the list is left to the turns, which see every server's.
SeedsLoaded ==
    loaded' = IF prober.frozen THEN loaded ELSE [tools |-> prober.found, by |-> "prober"]

\* A heartbeat that is being put together has read some of it before.
Overtakes == beat' = [beat EXCEPT !.overtaken = beat.at \notin {"idle", "posted"} \/ @]

PublishesLoaded ==
    /\ prober.at = "listed"
    /\ SeedsLoaded /\ Overtakes
    /\ prober' = [prober EXCEPT !.at = "seeded"]
    /\ UNCHANGED <<servers, facing, ready, failure, capture>>

\* Mutant: any list makes ready.
ReadyIfListed ==
    /\ prober.at = "seeded"
    /\ ready' = [signal |-> "yes", once |-> TRUE]
    /\ prober' = [prober EXCEPT !.at = "idle", !.frozen = TRUE]
    /\ Overtakes
    /\ UNCHANGED <<servers, loaded, facing, failure, capture>>

PublishesReady ==
    LET is == "provision_workspace" \in prober.found
    IN  /\ prober.at = "seeded"
        /\ ready' = [signal |-> IF is THEN "yes" ELSE "no", once |-> ready.once \/ is]
        /\ prober' = [prober EXCEPT !.at = "idle", !.frozen = @ \/ is]
        /\ Overtakes
        /\ UNCHANGED <<servers, loaded, facing, failure, capture>>

\* Between two probes, and while one runs: the thread is left to finish it.
ProberStops ==
    /\ prober.at = "idle"
    /\ prober' = [prober EXCEPT !.at = "over"]
    /\ UNCHANGED <<servers, published, capture, beat>>

(***************************************************************************)
(* The listing at boot.  It takes what the servers that answered listed,   *)
(* and records a launch failure whichever server could not be started.     *)
(***************************************************************************)
Listed ==
    UNION {IF management.health = "lists" THEN Managed ELSE {},
           IF foreign = "lists" THEN {"foreign"} ELSE {}}

FailsToLaunch == "dead" \in {management.health, foreign}

CaptureTries ==
    /\ capture.at \in {"idle", "waiting"} /\ capture.attempt < MaxCaptures
    /\ capture' = [at |-> "listing", attempt |-> capture.attempt + 1]
    /\ UNCHANGED <<servers, prober, published, beat>>

\* A hard failure ends the attempts; so does any list, and the overall deadline
\* makes one of them nothing.
Captures ==
    /\ capture.at = "listing"
    /\ failure' \in {failure, failure \/ FailsToLaunch}
    /\ \/ /\ "lists" \in {management.health, foreign} /\ failure' = (failure \/ FailsToLaunch)
          /\ loaded' = [tools |-> Listed, by |-> "boot"]
          /\ Overtakes
          /\ capture' = [capture EXCEPT !.at = "facing"]
       \/ /\ UNCHANGED <<loaded, beat>>
          /\ capture' = [capture EXCEPT !.at =
                            IF failure' \/ capture.attempt = MaxCaptures THEN "over" ELSE "waiting"]
    /\ UNCHANGED <<servers, prober, facing, ready>>

\* What the runtime puts in front of the model, if it can tell.
CapturesFacing ==
    /\ capture.at = "facing"
    /\ facing' \in {facing, {}, loaded.tools \ {Unset}}
    /\ capture' = [capture EXCEPT !.at = "over"]
    /\ UNCHANGED <<servers, prober, loaded, ready, failure, beat>>

\* A turn of the runtime publishes what its own session has loaded.
TurnCaptures ==
    /\ loaded' = [tools |-> Listed, by |-> "turn"]
    /\ Overtakes
    /\ UNCHANGED <<servers, prober, facing, ready, failure, capture>>

(***************************************************************************)
(* The alive thread.                                                       *)
(***************************************************************************)
BeatReadsLoaded ==
    /\ beat.at = "idle"
    /\ beat' = [NoBeat EXCEPT !.at = "loaded", !.loaded = loaded]
    /\ UNCHANGED <<servers, prober, published, capture>>

Orphaned(tools, seen) == IF {Unset} \in {tools, seen} THEN {Unset} ELSE tools \ seen

BeatReadsFacing ==
    /\ beat.at = "loaded"
    /\ beat' = [beat EXCEPT !.at = "facing", !.orphaned = Orphaned(beat.loaded.tools, facing)]
    /\ UNCHANGED <<servers, prober, published, capture>>

BeatReadsReady ==
    /\ beat.at = "facing"
    /\ beat' = [beat EXCEPT !.at = "ready", !.signal = ready.signal]
    /\ UNCHANGED <<servers, prober, published, capture>>

\* What it said is with the platform now.
Posts ==
    /\ beat.at = "ready"
    /\ beat' = [NoBeat EXCEPT !.at = "posted"]
    /\ UNCHANGED <<servers, prober, published, capture>>

\* Answered, refused or failed, the next heartbeat reads everything anew; how
\* many have failed only sets the pace.
BeatEnds ==
    /\ beat.at = "posted"
    /\ beat' = NoBeat
    /\ UNCHANGED <<servers, prober, published, capture>>

ReadinessNext ==
    \/ ServersChange
    \/ Probes \/ ProbeFails \/ ProbeLists \/ PublishesLoaded \/ PublishesReady \/ ProberStops
    \/ CaptureTries \/ Captures \/ CapturesFacing \/ TurnCaptures
    \/ BeatReadsLoaded \/ BeatReadsFacing \/ BeatReadsReady \/ Posts \/ BeatEnds

(***************************************************************************)
(* Properties.                                                             *)
(***************************************************************************)
\* A heartbeat that says the management tools are ready lists the verb that
\* makes them so, as long as the list in it is the prober's and the prober did
\* not publish between the reads of that heartbeat (mcp_readiness_probe.py:
\* run_once; platform_agent_identity.py: identity_gate_payload).  A list of
\* another producer may lack it.
ReadyIsObserved ==
    beat.signal = "yes" /\ beat.loaded.by = "prober" /\ ~beat.overtaken =>
        "provision_workspace" \in beat.loaded.tools
=============================================================================
