------------------------------ MODULE Services ------------------------------
(***************************************************************************)
(* The services of a workspace that an agent and its host call while it    *)
(* serves: the tools and their server (McpServer, which extends A2ACalls), *)
(* the gates on its tools (Oversight), what it reports of them             *)
(* (Readiness), its skills (Skills) and its prompt (SystemPrompt), the     *)
(* files of its messages (Attachments), the work it pushes (Publishing)    *)
(* and the sockets of its plugins (LocalEvents).  They share one process.  *)
(* The pushes of the server fetch peer records; else no step of one reads  *)
(* the state of another, and "focus" is the part whose steps a behaviour   *)
(* takes.                                                                  *)
(***************************************************************************)
EXTENDS McpServer, Oversight, Readiness, Skills, SystemPrompt, Attachments, Publishing, LocalEvents

VARIABLE focus

agent == <<calls, server, oversight, readiness>>
workspace == <<skills, prompt, attachments, publishing, events>>
vars == <<agent, workspace, focus>>

Focus == {"delegation", "errands", "server", "gates", "pauses", "scripts", "readiness", "skills",
          "surface", "prompt", "attachments", "publishing", "events"}

TypeOK ==
    /\ CallsTypeOK /\ ServerTypeOK /\ OversightTypeOK /\ ReadinessTypeOK
    /\ SkillsTypeOK /\ PromptTypeOK /\ AttachmentsTypeOK /\ PublishingTypeOK /\ EventsTypeOK
    /\ focus \in Focus

\* The environment of the parts that are out of focus is of no interest.
Init ==
    /\ focus \in Focus
    /\ CallsInit /\ (focus # "delegation" => ~viaRows)
    /\ ServerInit /\ (focus # "server" => transport = "stdio" /\ granted = {})
    /\ OversightInit
    /\ focus # "gates" => policy.roles = {"operator"} /\ policy.bypass = {} /\ ~policy.websocket
    /\ ReadinessInit
    /\ focus # "readiness" =>
           management = [health |-> "lists", verb |-> TRUE] /\ foreign = "lists"
    /\ SkillsInit /\ (scan.mode # "block" => scan.failOpen /\ scan.installed)
    /\ focus # "skills" =>
           /\ scan.mode = "off" /\ scan.failOpen /\ scan.installed /\ adapter = "tools"
           /\ disk = [s \in Skill |-> Gone]
    /\ focus # "surface" => surface.runtime = "prompted" /\ surface.place = "nothing"
    /\ PromptInit
    /\ focus # "prompt" => files = {} /\ nature = "unlisted" /\ ~configs.there /\ ~persona
    /\ AttachmentsInit
    /\ focus # "attachments" =>
           /\ \A u \in Upload : upload[u] = [form |-> "id", size |-> "small", image |-> FALSE]
           /\ placed = {}
    /\ PublishingInit /\ (focus # "publishing" => head = "staging")
    /\ EventsInit /\ (focus # "events" => lanes = [l \in Lane |-> "channel"])

InAgent ==
    \/ /\ UNCHANGED <<server, oversight, readiness>>
       /\ \/ focus = "delegation" /\ DelegationNext
          \/ focus = "errands" /\ ErrandsNext
          \/ focus = "server" /\ RecordsNext
    \/ focus = "server" /\ ServerNext /\ UNCHANGED <<oversight, readiness>>
    \/ /\ UNCHANGED <<calls, server, readiness>>
       /\ \/ focus = "gates" /\ GatesNext
          \/ focus = "pauses" /\ PausesNext
          \/ focus = "scripts" /\ ScriptsNext
    \/ focus = "readiness" /\ ReadinessNext /\ UNCHANGED <<calls, server, oversight>>

InWorkspace ==
    \/ /\ UNCHANGED <<prompt, attachments, publishing, events>>
       /\ \/ focus = "skills" /\ SkillsNext
          \/ focus = "surface" /\ MaterializeSkills
    \/ focus = "prompt" /\ PromptNext /\ UNCHANGED <<skills, attachments, publishing, events>>
    \/ focus = "attachments" /\ AttachmentsNext /\ UNCHANGED <<skills, prompt, publishing, events>>
    \/ focus = "publishing" /\ PublishingNext /\ UNCHANGED <<skills, prompt, attachments, events>>
    \/ focus = "events" /\ EventsNext /\ UNCHANGED <<skills, prompt, attachments, publishing>>

Next ==
    /\ UNCHANGED focus
    /\ \/ InAgent /\ UNCHANGED workspace
       \/ InWorkspace /\ UNCHANGED agent

Spec == Init /\ [][Next]_vars

(***************************************************************************)
(* Properties.                                                             *)
(***************************************************************************)
\* Nothing is kept for somebody who is gone, and nobody waits for what is no
\* longer kept: the set of fetches in flight, the queues of the streams, the
\* handles of processes and the paused tasks have their owner (a2a_client.py:
\* _enrich_in_flight; a2a_mcp_server.py: _http_connection_queues; sandbox.py:
\* _run_subprocess; hitl.py: _TaskPauseRegistry).
NothingLeaks ==
    /\ FetchIsWorked
    /\ QueueIsServed
    /\ WaiterIsListed
    /\ ChildIsHeld

\* What comes in over the chat and the sockets is what was sent and from whom,
\* and what goes out stays what it was: files, messages, commits.
NothingIsGarbled == FilesArrive /\ WorkIsPublished /\ MessageIsOfItsLane
=============================================================================
