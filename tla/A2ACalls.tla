------------------------------ MODULE A2ACalls ------------------------------
(***************************************************************************)
(* The tools with which an agent reaches its peers, its user and its       *)
(* memory (a2a_client.py, a2a_tools_delegation.py, a2a_tools_messaging.py, *)
(* a2a_tools_memory.py, builtin_tools/memory.py).                          *)
(*                                                                         *)
(* A call of delegate_task sends the task through the platform's proxy,    *)
(* retries when the connection breaks, and falls back to the platform's    *)
(* /delegate rows when the peer only queues.  The network may break after  *)
(* the task was taken, so "taken" counts what the platform or the peer has *)
(* accepted, whatever the caller was told.                                 *)
(***************************************************************************)
EXTENDS Naturals, FiniteSets

CONSTANTS
    Call,           \* calls of the delegation tools
    Peer,           \* workspaces that can be delegated to
    Source,         \* workspaces this agent is registered as
    NoSource,       \* no workspace of them
    MaxAttempts,    \* A2A_DELEGATE_MAX_ATTEMPTS
    MaxFetches      \* bound on the fetches of peer records

ASSUME CallAssumption ==
    /\ MaxAttempts \in Nat \ {0} /\ MaxFetches \in Nat
    /\ Source # {} /\ Source \cap Peer = {} /\ NoSource \notin Source

Target == Peer \cup Source
Own == CHOOSE s \in Source : TRUE
Row == Source \X Target

VARIABLES
    viaRows,        \* DELEGATION_SYNC_VIA_INBOX
    route,          \* _peer_to_source
    call,           \* the calls
    row,            \* the platform's rows, one per source, target and task
    taken,          \* history: tasks accepted for a call
    broken,         \* history: connections of a call that broke
    queued,         \* history: calls whose task was only queued
    known,          \* peers whose record is cached and fresh
    fetching,       \* _enrich_in_flight
    jobs,           \* fetches handed to the pool, per peer
    fetches,        \* history: their number
    errand,         \* a tool that is one request, or an upload and a request
    effects         \* what the platform has done for it

delegation == <<viaRows, route, call, row, taken, broken, queued>>
records == <<known, fetching, jobs, fetches>>
errands == <<errand, effects>>
calls == <<delegation, records, errands>>

Place == {"new", "discover", "post", "answer", "backoff", "dispatch", "poll", "over"}
Result == {"none", "refused", "failed", "reply", "given"}
Errand == {"message", "files", "broadcast", "plugin", "memory", "recall", "history", "info", "status"}

CallsTypeOK ==
    /\ viaRows \in BOOLEAN
    /\ route \in [Peer -> Source \cup {NoSource}]
    /\ call \in [Call -> [at : Place, from : Source, to : Target, padded : BOOLEAN,
                          attempt : 0..MaxAttempts, late : BOOLEAN, held : {"nobody", "peer", "queue"},
                          done : BOOLEAN, result : Result]]
    /\ row \in [Row -> {"none", "running", "completed", "failed"}]
    /\ taken \in [Call -> Nat] /\ broken \in [Call -> Nat] /\ queued \in SUBSET Call
    /\ known \in SUBSET Peer /\ fetching \in SUBSET Peer
    /\ jobs \in [Peer -> Nat] /\ fetches \in 0..MaxFetches
    /\ errand \in [kind : Errand \cup {"none"}, result : Result,
                   at : {"idle", "upload", "request", "report", "over"}]
    /\ effects \in SUBSET {"files", "request", "activity", "promotion"}

CallsInit ==
    /\ viaRows \in BOOLEAN
    /\ route = [p \in Peer |-> NoSource]
    /\ call = [c \in Call |-> [at |-> "new", from |-> Own, to |-> Own, padded |-> FALSE, attempt |-> 0,
                               late |-> FALSE, held |-> "nobody", done |-> FALSE, result |-> "none"]]
    /\ row = [r \in Row |-> "none"]
    /\ taken = [c \in Call |-> 0] /\ broken = [c \in Call |-> 0] /\ queued = {}
    /\ known = {} /\ fetching = {} /\ jobs = [p \in Peer |-> 0] /\ fetches = 0
    /\ errand = [kind |-> "none", at |-> "idle", result |-> "none"] /\ effects = {}

Moves(c, place) == call' = [call EXCEPT ![c].at = place]
Ends(c, result) == call' = [call EXCEPT ![c].at = "over", ![c].result = result]
CallAt(c, place) == call[c].at = place

(***************************************************************************)
(* delegate_task and delegate_task_async.                                  *)
(***************************************************************************)
\* Which of the agent's workspaces sends: the one asked for, the one through
\* which the peer was listed, or its own.
Sender(asked, t) ==
    IF asked # NoSource THEN asked
    ELSE IF t \in Peer /\ route[t] # NoSource THEN route[t]
    ELSE Own

\* The guard compares the identifiers as they are spelled; discovery and the
\* proxy strip them and fold their case.
OwnWorkspace(s, t, padded) == s = t /\ ~padded

Delegate(c, asked, t, padded) ==
    LET s == Sender(asked, t)
    IN  /\ CallAt(c, "new")
        /\ call' = [call EXCEPT ![c] = [@ EXCEPT !.from = s, !.to = t, !.padded = padded,
                        !.at = IF OwnWorkspace(s, t, padded) THEN "over" ELSE "discover",
                        !.result = IF OwnWorkspace(s, t, padded) THEN "refused" ELSE "none"]]
        /\ UNCHANGED <<viaRows, route, row, taken, broken, queued, records, errands>>

\* The asynchronous tool goes straight to the rows and does not wait.  An
\* answer other than 202 is a failure to it, the 200 for a row that exists too.
DelegateAsync(c, asked, t, padded) ==
    LET s == Sender(asked, t)
        key == <<s, t>>
        Says(result) == call' = [call EXCEPT ![c] = [@ EXCEPT !.from = s, !.to = t, !.padded = padded,
                                                             !.at = "over", !.result = result]]
    IN  /\ CallAt(c, "new")
        /\ \/ OwnWorkspace(s, t, padded) /\ Says("refused") /\ UNCHANGED <<row, taken>>
           \/ /\ ~OwnWorkspace(s, t, padded)
              /\ \/ Says("failed") /\ UNCHANGED <<row, taken>>
                 \/ row[key] # "none" /\ Says("given") /\ UNCHANGED <<row, taken>>
                 \/ /\ row[key] = "none"
                    /\ Says("given") \/ Says("failed")
                    /\ row' = [row EXCEPT ![key] = "running"]
                    /\ taken' = [taken EXCEPT ![c] = @ + 1]
        /\ UNCHANGED <<viaRows, route, broken, queued, records, errands>>

\* The peer must be registered, reachable and not offline.
Discovered(c) ==
    /\ CallAt(c, "discover")
    /\ \/ viaRows /\ Moves(c, "dispatch")
       \/ ~viaRows /\ Moves(c, "post")
       \/ Ends(c, "refused")
    /\ UNCHANGED <<viaRows, route, row, taken, broken, queued, records, errands>>

\* One POST to the proxy.  What the platform does with it: nothing, hand it to
\* the peer, or queue it for a peer that is busy or polls.
Post(c) ==
    /\ CallAt(c, "post")
    /\ \E h \in {"nobody", "peer", "queue"} :
          /\ call' = [call EXCEPT ![c].at = "answer", ![c].attempt = @ + 1,
                                  ![c].held = h, ![c].done = FALSE]
          /\ taken' = [taken EXCEPT ![c] = IF h = "nobody" THEN @ ELSE @ + 1]
          /\ queued' = IF h = "queue" THEN queued \cup {c} ELSE queued
    /\ UNCHANGED <<viaRows, route, row, broken, records, errands>>

PeerDoes(c) ==
    /\ CallAt(c, "answer") /\ call[c].held = "peer" /\ ~call[c].done
    /\ call' = [call EXCEPT ![c].done = TRUE]
    /\ UNCHANGED <<viaRows, route, row, taken, broken, queued, records, errands>>

\* The text of a result.
Replied(c) ==
    /\ CallAt(c, "answer") /\ call[c].held = "peer" /\ call[c].done
    /\ Ends(c, "reply")
    /\ UNCHANGED <<viaRows, route, row, taken, broken, queued, records, errands>>

\* A status outside 2xx, a body that is not JSON, an error or an unknown shape
\* ends the call: the task may have been taken all the same.
\* Mutant: such an answer is retried like a broken connection.
RetriedAnswer(c) ==
    /\ CallAt(c, "answer")
    /\ IF call[c].attempt < MaxAttempts THEN Moves(c, "backoff") ELSE Ends(c, "failed")
    /\ UNCHANGED <<viaRows, route, row, taken, broken, queued, records, errands>>

Answered(c) ==
    /\ CallAt(c, "answer") /\ Ends(c, "failed")
    /\ UNCHANGED <<viaRows, route, row, taken, broken, queued, records, errands>>

\* Mutant: the queued envelope is taken for a result without text.
SentinelAsReply(c) ==
    /\ CallAt(c, "answer") /\ call[c].held = "queue"
    /\ Ends(c, "reply")
    /\ UNCHANGED <<viaRows, route, row, taken, broken, queued, records, errands>>

\* Both queued envelopes, the busy peer's and the polling peer's, make the tool
\* fall back to a row: the peer will get the task from both.
FallsBack(c) ==
    /\ CallAt(c, "answer") /\ call[c].held = "queue"
    /\ Moves(c, "dispatch")
    /\ UNCHANGED <<viaRows, route, row, taken, broken, queued, records, errands>>

\* The connection breaks or the read times out: with attempts and time left the
\* task is sent once more.
Breaks(c) ==
    /\ CallAt(c, "answer")
    /\ broken' = [broken EXCEPT ![c] = @ + 1]
    /\ IF call[c].attempt < MaxAttempts /\ ~call[c].late THEN Moves(c, "backoff") ELSE Ends(c, "failed")
    /\ UNCHANGED <<viaRows, route, row, taken, queued, records, errands>>

\* The pause is cut to what the budget leaves, and the attempt after it is made.
BacksOff(c) ==
    /\ CallAt(c, "backoff") /\ Moves(c, "post")
    /\ UNCHANGED <<viaRows, route, row, taken, broken, queued, records, errands>>

BudgetSpent(c) ==
    /\ call[c].at \in {"answer", "backoff", "poll"} /\ ~call[c].late
    /\ call' = [call EXCEPT ![c].late = TRUE]
    /\ UNCHANGED <<viaRows, route, row, taken, broken, queued, records, errands>>

\* The key is a hash of source, target and task: a row that exists, in whatever
\* state, is given back instead of a new one.
Dispatched(c) ==
    LET key == <<call[c].from, call[c].to>>
    IN  /\ CallAt(c, "dispatch")
        /\ \/ /\ row[key] = "none"
              /\ row' = [row EXCEPT ![key] = "running"]
              /\ taken' = [taken EXCEPT ![c] = @ + 1]
              /\ Moves(c, "poll") \/ Ends(c, "failed")
           \/ row[key] # "none" /\ Moves(c, "poll") /\ UNCHANGED <<row, taken>>
           \/ Ends(c, "failed") /\ UNCHANGED <<row, taken>>
        /\ UNCHANGED <<viaRows, route, broken, queued, records, errands>>

\* The platform runs the row.
RowEnds(key) ==
    /\ row[key] = "running"
    /\ \E s \in {"completed", "failed"} : row' = [row EXCEPT ![key] = s]
    /\ UNCHANGED <<viaRows, route, call, taken, broken, queued, records, errands>>

\* A failed read of the rows is tolerated; the budget is what ends the wait.
Polled(c) ==
    LET key == <<call[c].from, call[c].to>>
    IN  /\ CallAt(c, "poll")
        /\ \/ row[key] = "completed" /\ Ends(c, "reply")
           \/ row[key] = "failed" /\ Ends(c, "failed")
           \/ call[c].late /\ Ends(c, "failed")
        /\ UNCHANGED <<viaRows, route, row, taken, broken, queued, records, errands>>

\* list_peers: a peer that two workspaces see goes by the one listed last.
ListPeers(s, p) ==
    /\ route[p] # s
    /\ route' = [route EXCEPT ![p] = s]
    /\ UNCHANGED <<viaRows, call, row, taken, broken, queued, records, errands>>

(***************************************************************************)
(* The records of peers, fetched in the background for the push path.      *)
(***************************************************************************)
\* The pool takes no work once it is shut down.
Submit(p) ==
    /\ \/ jobs' = [jobs EXCEPT ![p] = @ + 1] /\ fetching' = fetching \cup {p}
       \/ UNCHANGED <<jobs, fetching>>
    /\ UNCHANGED known

Enrich(p) ==
    /\ p \notin known /\ p \notin fetching /\ fetches < MaxFetches
    /\ fetches' = fetches + 1
    /\ Submit(p)
    /\ UNCHANGED <<delegation, errands>>

\* A failure is cached as well: absence is remembered for the same five minutes.
Fetched(p) ==
    /\ jobs[p] > 0 /\ p \in fetching /\ p \notin known
    /\ known' = known \cup {p}
    /\ UNCHANGED <<fetching, jobs, fetches, delegation, errands>>

FetchOver(p) ==
    /\ jobs[p] > 0
    /\ jobs' = [jobs EXCEPT ![p] = @ - 1]
    /\ fetching' = fetching \ {p}
    /\ UNCHANGED <<known, fetches, delegation, errands>>

\* Five minutes pass, or newer records push this one out.
RecordGone(p) ==
    /\ p \in known /\ known' = known \ {p}
    /\ UNCHANGED <<fetching, jobs, fetches, delegation, errands>>

(***************************************************************************)
(* The tools that are one request: a message to the user, with files that  *)
(* are uploaded first, a broadcast, a plugin to install, a memory to keep, *)
(* a look at something the platform keeps.                                 *)
(***************************************************************************)
Starts(k, at) ==
    /\ errand.at = "idle"
    /\ \/ errand' = [kind |-> k, at |-> at, result |-> "none"]
       \/ errand' = [kind |-> k, at |-> "over", result |-> "refused"]
    /\ effects' = {}
    /\ UNCHANGED <<delegation, records>>

\* A message without text, or with a file that is not there, is refused.
MessageStarts == Starts("message", "request")
FilesStart == Starts("files", "upload")
BroadcastStarts == Starts("broadcast", "request")
\* The source and the runtime it is for are checked first.
PluginStarts == Starts("plugin", "request")
\* So are the scope and the roles; a secret in the text is blacked out.
MemoryStarts == Starts("memory", "request")
RecallStarts == Starts("recall", "request")
HistoryStarts == Starts("history", "request")
InfoStarts == Starts("info", "request")
StatusStarts == Starts("status", "request")

Doing(kinds, at) == errand.at = at /\ errand.kind \in kinds

\* Without every file uploaded the message is not sent.
Uploads ==
    /\ Doing({"files"}, "upload")
    /\ \/ errand' = [errand EXCEPT !.at = "request"] /\ effects' = effects \cup {"files"}
       \/ errand' = [errand EXCEPT !.at = "over", !.result = "failed"]
          /\ effects' \in {effects, effects \cup {"files"}}
    /\ UNCHANGED <<delegation, records>>

\* A lost answer and a refusal read alike.
Requests(next) ==
    /\ \/ errand' = [errand EXCEPT !.at = next, !.result = "reply"] /\ effects' = effects \cup {"request"}
       \/ errand' = [errand EXCEPT !.at = "over", !.result = "failed"]
          /\ effects' \in {effects, effects \cup {"request"}}
    /\ UNCHANGED <<delegation, records>>

SendsRequest == Doing({"message", "files", "broadcast", "plugin"}, "request") /\ Requests("over")
Reads == Doing({"recall", "history", "info", "status"}, "request") /\ Requests("over")

\* A memory that was kept is reported to the activity log, and a packet that
\* promotes a skill besides; what becomes of the reports does not matter.
CommitsMemory == Doing({"memory"}, "request") /\ Requests("report")

ReportsMemory ==
    /\ Doing({"memory"}, "report")
    /\ errand' = [errand EXCEPT !.at = "over"]
    /\ \E told \in SUBSET {"activity", "promotion"} : effects' = effects \cup told
    /\ UNCHANGED <<delegation, records>>

DelegationNext ==
    \/ \E c \in Call, asked \in Source \cup {NoSource}, t \in Target, padded \in BOOLEAN :
          /\ padded => t \in Source
          /\ Delegate(c, asked, t, padded) \/ DelegateAsync(c, asked, t, padded)
    \/ \E c \in Call :
          \/ Discovered(c) \/ Post(c) \/ PeerDoes(c) \/ Replied(c) \/ Answered(c) \/ FallsBack(c)
          \/ Breaks(c) \/ BacksOff(c) \/ BudgetSpent(c) \/ Dispatched(c) \/ Polled(c)
    \/ \E r \in Row : RowEnds(r)
    \/ \E s \in Source, p \in Peer : ListPeers(s, p)

RecordsNext == \E p \in Peer : Fetched(p) \/ FetchOver(p) \/ RecordGone(p)

ErrandsNext ==
    \/ MessageStarts \/ FilesStart \/ BroadcastStarts \/ PluginStarts \/ MemoryStarts
    \/ RecallStarts \/ HistoryStarts \/ InfoStarts \/ StatusStarts
    \/ Uploads \/ SendsRequest \/ Reads \/ CommitsMemory \/ ReportsMemory

(***************************************************************************)
(* Properties.                                                             *)
(***************************************************************************)
\* A task is accepted more than once for one call of delegate_task only when a
\* connection broke after it was sent, or when a peer that queued it is given
\* a row as well (a2a_client.py: send_a2a_message retries only transport
\* errors; a2a_tools_delegation.py: the fallback of tool_delegate_task).
TwiceHasCause ==
    \A c \in Call : taken[c] <= 1 + broken[c] + Cardinality(queued \cap {c})

\* What a tool reports as done has been done: a reply is what the peer made of
\* this task, sent by this call or by an earlier one whose row it shares, and a
\* message the user is said to have got was sent with every file it names.
ReplyIsReal ==
    /\ \A c \in Call : call[c].result = "reply" =>
          \/ call[c].done
          \/ row[<<call[c].from, call[c].to>>] = "completed"
    /\ errand.result = "reply" =>
          "request" \in effects /\ (errand.kind = "files" => "files" \in effects)

\* A peer in the set of fetches in flight is being fetched, once: an entry left
\* behind would keep its record from ever being fetched again.
FetchIsWorked == \A p \in Peer : jobs[p] = Cardinality(fetching \cap {p})
=============================================================================
