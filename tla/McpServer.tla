------------------------------ MODULE McpServer ------------------------------
(***************************************************************************)
(* The MCP server that gives an agent its tools (a2a_mcp_server.py,        *)
(* mcp_tools.py, platform_tools/registry.py): requests over stdio or HTTP, *)
(* the event streams of the HTTP transport, and the notifications that     *)
(* push inbox messages to the host.                                        *)
(***************************************************************************)
EXTENDS A2ACalls

CONSTANTS
    Request,        \* requests of the host
    Stream,         \* connections of /mcp/stream
    NoStream,       \* none of them
    QueueMax        \* responses a stream holds

ASSUME ServerAssumption == NoStream \notin Stream /\ QueueMax \in Nat \ {0}

(***************************************************************************)
(* The tools, as the registry lists them, and the permission each needs.   *)
(***************************************************************************)
DelegationTools == {"delegate_task", "delegate_task_async", "check_task_status"}
PeerTools == {"list_peers", "get_workspace_info", "send_message_to_user", "wait_for_message", "inbox_peek",
              "inbox_pop", "chat_history", "broadcast_message", "install_plugin"}
MemoryTools == {"commit_memory", "recall_memory"}
DisplayTools == {"desktop_status", "desktop_screenshot", "desktop_click", "desktop_type", "desktop_key",
                 "desktop_open_url", "desktop_wait_for_control"}
GoalTools == {"goal_set", "goal_get", "goal_clear", "task_add", "task_update", "task_complete", "task_list"}
OwnTools == {"get_runtime_identity", "update_agent_card", "create_approval", "create_request"}
Tools == DelegationTools \cup PeerTools \cup MemoryTools \cup DisplayTools \cup GoalTools \cup OwnTools

Permission(t) ==
    IF t \in DelegationTools THEN "delegate"
    ELSE IF t = "send_message_to_user" THEN "approve"
    ELSE IF t \in DisplayTools \ {"desktop_wait_for_control"} THEN "display.control"
    ELSE IF t \in {"commit_memory", "update_agent_card"} THEN "memory.write"
    ELSE "none"

VARIABLES
    transport,      \* "stdio" or "http"
    serving,        \* the server answers
    granted,        \* permissions of the workspace's roles
    request,        \* the requests
    stream,         \* a connection's stream: "opened" until its first event is out, then "open",
                    \* "timed" and "over"; "left" when the host went at the first event
    registered,     \* the streams _http_connection_queues has an entry for
    queue,          \* the answers in such a queue
    answers,        \* history: answers that reached the host, per request
    ran,            \* history: tools that ran
    named           \* what the last pushed message said of its sender

server == <<transport, serving, granted, request, stream, registered, queue, answers, ran, named>>

ServerTypeOK ==
    /\ transport \in {"stdio", "http"} /\ serving \in BOOLEAN
    /\ granted \in SUBSET {"delegate", "approve", "display.control", "memory.write"}
    /\ request \in [Request -> [at : {"new", "running", "queued", "over"},
                                tool : Tools \cup {"none", "unknown"},
                                to : Stream \cup {NoStream}]]
    /\ stream \in [Stream -> {"none", "opened", "open", "timed", "left", "over"}]
    /\ registered \in SUBSET Stream
    /\ queue \in [Stream -> SUBSET Request]
    /\ answers \in [Request -> Nat]
    /\ ran \in SUBSET Tools /\ named \in {"nobody", "bare", "named"}

ServerInit ==
    /\ transport \in {"stdio", "http"} /\ serving = TRUE
    /\ granted \in {{}, {"delegate", "memory.write"}}
    /\ request = [r \in Request |-> [at |-> "new", tool |-> "none", to |-> NoStream]]
    /\ stream = [s \in Stream |-> "none"] /\ registered = {} /\ queue = [s \in Stream |-> {}]
    /\ answers = [r \in Request |-> 0] /\ ran = {} /\ named = "nobody"

(***************************************************************************)
(* Requests.                                                               *)
(***************************************************************************)
\* Over stdio one request is handled at a time.
Busy == transport = "stdio" /\ \E r \in Request : request[r].at = "running"

\* A request for a tool; "none" stands for initialize and tools/list.  The host
\* can name a stream once the first event was on its way to it.
Asks(r, t, s) ==
    /\ serving /\ ~Busy /\ request[r].at = "new"
    /\ s # NoStream => transport = "http" /\ stream[s] \notin {"none", "opened"}
    /\ request' = [request EXCEPT ![r] = [at |-> "running", tool |-> t, to |-> s]]
    /\ UNCHANGED <<transport, serving, granted, stream, registered, queue, answers, ran, named>>

Allowed(t) == t \in Tools /\ (Permission(t) = "none" \/ Permission(t) \in granted)

Runs(t) == ran' = IF Allowed(t) THEN ran \cup {t} ELSE ran

\* The answer goes to the stream the request names, if it has a queue with
\* room, and into the response of the request otherwise.
Room(s) == s \in registered /\ Cardinality(queue[s]) < QueueMax

\* Mutant: the response carries the answer that was queued as well.
AnsweredTwice(r) ==
    LET s == request[r].to
    IN  /\ IF Room(s)
           THEN /\ queue' = [queue EXCEPT ![s] = @ \cup {r}]
                /\ request' = [request EXCEPT ![r].at = "queued"]
           ELSE /\ request' = [request EXCEPT ![r].at = "over"]
                /\ UNCHANGED queue
        /\ answers' = [answers EXCEPT ![r] = @ + 1]

AnswerGoes(r) ==
    LET s == request[r].to
    IN  IF Room(s)
        THEN /\ queue' = [queue EXCEPT ![s] = @ \cup {r}]
             /\ request' = [request EXCEPT ![r].at = "queued"]
             /\ UNCHANGED answers
        ELSE /\ request' = [request EXCEPT ![r].at = "over"]
             /\ answers' = [answers EXCEPT ![r] = @ + 1]
             /\ UNCHANGED queue

Responds(r) ==
    /\ serving /\ request[r].at = "running"
    /\ Runs(request[r].tool)
    /\ AnswerGoes(r)
    /\ UNCHANGED <<transport, serving, granted, stream, registered, named>>

\* Over stdio, an exception of a tool or a message that is not an object ends
\* the loop, and the server with it.  Over HTTP the request alone fails.
ToolRaises(r) ==
    /\ serving /\ request[r].at = "running" /\ Allowed(request[r].tool)
    /\ Runs(request[r].tool)
    /\ IF transport = "stdio"
       THEN serving' = FALSE /\ UNCHANGED <<request, answers>>
       ELSE /\ request' = [request EXCEPT ![r].at = "over"]
            /\ answers' = [answers EXCEPT ![r] = @ + 1] /\ UNCHANGED serving
    /\ UNCHANGED <<transport, granted, stream, registered, queue, named>>

NotAnObject ==
    /\ serving /\ transport = "stdio" /\ ~Busy
    /\ serving' = FALSE
    /\ UNCHANGED <<transport, granted, request, stream, registered, queue, answers, ran, named>>

(***************************************************************************)
(* Streams.                                                                *)
(***************************************************************************)
\* The queue is in the table before the response begins.
StreamOpens(s) ==
    /\ serving /\ transport = "http" /\ stream[s] = "none"
    /\ stream' = [stream EXCEPT ![s] = "opened"] /\ registered' = registered \cup {s}
    /\ UNCHANGED <<transport, serving, granted, request, queue, answers, ran, named>>

\* The first event tells the host the identifier.  What takes the queue out of
\* the table guards what follows only: a host that goes at this event leaves it.
FirstEvent(s) ==
    /\ stream[s] = "opened"
    /\ \E at \in {"open", "left"} : stream' = [stream EXCEPT ![s] = at]
    /\ UNCHANGED <<transport, serving, granted, request, registered, queue, answers, ran, named>>

Streams(s, r) ==
    /\ stream[s] = "open" /\ r \in queue[s]
    /\ queue' = [queue EXCEPT ![s] = @ \ {r}]
    /\ request' = [request EXCEPT ![r].at = "over"]
    /\ answers' = [answers EXCEPT ![r] = @ + 1]
    /\ UNCHANGED <<transport, serving, granted, stream, registered, ran, named>>

\* Five minutes without an answer, or a host that has gone: the stream is over
\* before its task gets to take the queue out of the table.
StreamTimes(s) ==
    /\ stream[s] = "open"
    /\ stream' = [stream EXCEPT ![s] = "timed"]
    /\ UNCHANGED <<transport, serving, granted, request, registered, queue, answers, ran, named>>

StreamEnds(s) ==
    /\ stream[s] = "timed"
    /\ stream' = [stream EXCEPT ![s] = "over"] /\ registered' = registered \ {s}
    /\ queue' = [queue EXCEPT ![s] = {}]
    /\ request' = [r \in Request |->
                     IF r \in queue[s] THEN [request[r] EXCEPT !.at = "over"] ELSE request[r]]
    /\ UNCHANGED <<transport, serving, granted, answers, ran, named>>

(***************************************************************************)
(* Notifications.  A sender the platform has named is not looked up; of    *)
(* another the cached record is shown, and fetched when there is none.     *)
(***************************************************************************)
Pushes(p) ==
    /\ serving
    /\ \/ named' = "named" /\ UNCHANGED calls
       \/ p \in known /\ named' \in {"bare", "named"} /\ UNCHANGED calls
       \/ p \in fetching /\ named' = "bare" /\ UNCHANGED calls
       \/ Enrich(p) /\ named' = "bare"
    /\ UNCHANGED <<transport, serving, granted, request, stream, registered, queue, answers, ran>>

ServerNext ==
    \/ /\ \/ \E r \in Request, s \in Stream \cup {NoStream},
                t \in {"none", "unknown", "delegate_task", "send_message_to_user", "list_peers"} :
                    Asks(r, t, s)
          \/ \E r \in Request : Responds(r) \/ ToolRaises(r)
          \/ NotAnObject
          \/ \E s \in Stream : StreamOpens(s) \/ FirstEvent(s) \/ StreamTimes(s) \/ StreamEnds(s)
          \/ \E s \in Stream, r \in Request : Streams(s, r)
       /\ UNCHANGED calls
    \/ \E p \in Peer : Pushes(p)

(***************************************************************************)
(* Properties.                                                             *)
(***************************************************************************)
\* A request is answered at most once, and one that is over without an answer
\* was queued for a stream that ended before it took it
\* (a2a_mcp_server.py: mcp_handler, event_stream).
AnsweredOnce ==
    \A r \in Request :
        /\ answers[r] <= 1
        /\ request[r].at = "over" /\ answers[r] = 0 =>
              request[r].to \in Stream /\ stream[request[r].to] = "over"

\* A queue stays in the table only as long as its stream's task, unless the host
\* went at the first event; and no answer is in a queue that is not in the table
\* (a2a_mcp_server.py: sse_handler, event_stream).
QueueIsServed ==
    \A s \in Stream : /\ s \in registered => stream[s] \notin {"none", "over"}
                      /\ queue[s] # {} => s \in registered
=============================================================================
