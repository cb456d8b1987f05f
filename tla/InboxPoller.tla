------------------------------ MODULE InboxPoller ------------------------------
(***************************************************************************)
(* The inbox of the standalone MCP server: inbox.py (the queue, the cursor *)
(* and the polling threads, one per workspace), inbox_uploads.py (the      *)
(* worker that fetches an uploaded file) and the tools of                  *)
(* a2a_tools_inbox.py through which the agent waits for and pops messages. *)
(*                                                                         *)
(* The platform's activity log, its pruning and its acknowledgement marks  *)
(* are the environment.  A row is named by its position in the log, which  *)
(* stands for its id and its seq; 0 stands for no row.  An action is the   *)
(* code between two points where another thread, or the end of the         *)
(* process, can get in.                                                    *)
(***************************************************************************)
EXTENDS Naturals, Sequences, FiniteSets

CONSTANTS
  Workspace, \* the workspaces polled by this process, one thread each
  Waiter,    \* the concurrent calls of wait_for_message
  Capacity,  \* MAX_QUEUED_MESSAGES
  Page,      \* how many rows the platform returns at most
  CacheSize, \* URI_CACHE_MAX_ENTRIES
  MaxRows,   \* bound: how many rows are ever logged
  MaxFiles,  \* bound: how many of them are uploads
  MaxAged,   \* bound: how many of them become older than the backlog window
  MaxCrashes \* bound: how often the process is restarted

ASSUME InboxAssumption ==
  /\ {Capacity, Page, CacheSize} \subseteq Nat \ {0}
  /\ {MaxRows, MaxFiles, MaxAged, MaxCrashes} \subseteq Nat

VARIABLES
  (* The platform: *)
  log,      \* the activity rows: whose, of which kind, about which upload
  aged,     \* rows up to this one are older than the backlog window
  pruned,   \* rows up to this one are gone
  acked,    \* the acknowledged seq of each workspace
  fetched,  \* the uploads whose bytes were acknowledged, hence deleted
  (* The disk: *)
  disk,     \* the cursor files, 0 for an absent one
  (* InboxState: *)
  cursors,  \* _cursors, 0 for None
  queue,    \* _queue
  arrival,  \* _arrival, as an Event: its flag
  (* The threads: *)
  pc,       \* where the poller of a workspace stands
  batch,    \* the rows of its response it has not handled yet
  last,     \* last_id
  top,      \* the largest seq in the response
  fetch,    \* where the worker of an upload stands
  cache,    \* _URICache: the uploads it resolves
  waits,    \* where a call of wait stands
  crashes

platform == <<log, aged, pruned, acked, fetched>>
position == <<cursors, disk>>
inbox == <<queue, arrival, waits>>
poller == <<pc, batch, last, top>>
uploads == <<fetch, cache>>

VARIABLES
  (* Kept for the properties only: *)
  recorded, \* the rows that have ever been put into the queue
  missed,   \* the rows the platform withheld from a poll without a cursor,
            \* or pruned without an acknowledgement
  once,     \* the rows recorded since the position was last behind them
  twice,    \* those that were recorded again although it was not
  blamed,   \* the uploads with a reason not to be resolvable
  raw       \* the messages shown with a bare URI for no such reason

ghosts == <<recorded, missed, once, twice, blamed, raw>>
vars == <<platform, position, inbox, poller, uploads, crashes, ghosts>>

Rows == 1..MaxRows
RowsOf(w) == {i \in 1..Len(log) : log[i].ws = w}
Files == {i \in 1..Len(log) : log[i].kind = "upload"}
Own(i) == log[i].kind = "own"
Queued == {queue[k] : k \in 1..Len(queue)}
Later(a, b) == IF a > b THEN a ELSE b

TypeOK ==
  /\ log \in Seq([ws : Workspace, kind : {"chat", "own", "upload"}, about : 0..MaxRows])
  /\ Len(log) <= MaxRows
  /\ aged \in 0..Len(log)
  /\ pruned \in 0..aged
  /\ {acked, disk, cursors, last, top} \subseteq [Workspace -> 0..Len(log)]
  /\ {fetched, cache} \subseteq SUBSET Rows
  /\ queue \in Seq(1..Len(log)) /\ Len(queue) <= Capacity
  /\ arrival \in BOOLEAN
  /\ pc \in [Workspace -> {"idle", "reading", "fetching", "saving", "acking"}]
  /\ batch \in [Workspace -> SUBSET (1..Len(log))]
  /\ fetch \in [Rows -> {"none", "running", "staged"}]
  /\ Cardinality(cache) <= CacheSize
  /\ waits \in [Waiter -> {"no", "entering", "blocked"}]
  /\ crashes \in 0..MaxCrashes
  /\ {recorded, missed, once, twice, blamed, raw} \subseteq SUBSET Rows

Init ==
  /\ log = <<>> /\ aged = 0 /\ pruned = 0 /\ fetched = {}
  /\ acked = [w \in Workspace |-> 0]
  /\ disk = acked /\ cursors = acked
  /\ queue = <<>> /\ arrival = FALSE
  /\ pc = [w \in Workspace |-> "idle"]
  /\ batch = [w \in Workspace |-> {}]
  /\ last = acked /\ top = acked
  /\ fetch = [f \in Rows |-> "none"]
  /\ cache = {}
  /\ waits = [c \in Waiter |-> "no"]
  /\ crashes = 0
  /\ recorded = {} /\ missed = {} /\ once = {} /\ twice = {}
  /\ blamed = Rows /\ raw = {}

-----------------------------------------------------------------------------
(* The platform.                                                           *)

(* A row is logged: a message (perhaps about an upload of the workspace),  *)
(* an upload, or an echo of what the workspace itself has sent.            *)
Arrives(w) ==
  /\ Len(log) < MaxRows
  /\ \/ \E about \in {0} \cup (Files \cap RowsOf(w)) :
          log' = Append(log, [ws |-> w, kind |-> "chat", about |-> about])
     \/ /\ Cardinality(Files) < MaxFiles
        /\ log' = Append(log, [ws |-> w, kind |-> "upload", about |-> 0])
     \/ log' = Append(log, [ws |-> w, kind |-> "own", about |-> 0])
  /\ UNCHANGED <<aged, pruned, acked, fetched, position, inbox, poller, uploads,
                 crashes, ghosts>>

(* The oldest row in the backlog window leaves it.                         *)
Ages ==
  /\ aged < Len(log) /\ aged < MaxAged
  /\ aged' = aged + 1
  /\ UNCHANGED <<log, pruned, acked, fetched, position, inbox, poller, uploads,
                 crashes, ghosts>>

(* The oldest row is deleted, because it was acknowledged or because it    *)
(* has reached the hard limit of its age.                                  *)
Prunes ==
  /\ pruned < aged
  /\ pruned' = pruned + 1
  /\ missed' = IF pruned' <= acked[log[pruned'].ws] THEN missed
                                                    ELSE missed \cup {pruned'}
  /\ UNCHANGED <<log, aged, acked, fetched, position, inbox, poller, uploads,
                 crashes, recorded, once, twice, blamed, raw>>

(* The first, and the last, rows of S that fit into a response.            *)
Oldest(S) == {i \in S : Cardinality({j \in S : j < i}) < Page}
Newest(S) == {i \in S : Cardinality({j \in S : j > i}) < Page}

-----------------------------------------------------------------------------
(* A poll: the cursor and the response.  load_cursor reads the file in the *)
(* first poll; as no other thread writes it, the model does so at the      *)
(* start.                                                                  *)

(* The poller goes through rows, oldest first whatever the mode: the       *)
(* response of the backlog window is reversed.                             *)
Reads(w, rows) ==
  /\ pc' = [pc EXCEPT ![w] = IF rows = {} THEN "idle" ELSE "reading"]
  /\ batch' = [batch EXCEPT ![w] = rows]
  /\ last' = [last EXCEPT ![w] = 0]
  /\ top' = [top EXCEPT ![w] =
               IF rows = {} THEN 0 ELSE CHOOSE i \in rows : \A j \in rows : j <= i]

(* since_id: the rows after the cursor.  A request that fails changes      *)
(* nothing.                                                                *)
PollAfterCursor(w) ==
  /\ pc[w] = "idle"
  /\ cursors[w] > pruned
  /\ Reads(w, Oldest({i \in RowsOf(w) : i > cursors[w]}))
  /\ UNCHANGED <<platform, position, inbox, uploads, crashes, ghosts>>

(* since_secs: the rows of the backlog window.                             *)
PollWindow(w) ==
  /\ pc[w] = "idle"
  /\ cursors[w] = 0
  /\ LET rows == Newest({i \in RowsOf(w) : i > aged})
     IN  /\ Reads(w, rows)
         /\ missed' = missed \cup (RowsOf(w) \ rows)
  /\ UNCHANGED <<platform, position, inbox, uploads, crashes, recorded, once,
                 twice, blamed, raw>>

(* 410: the row of the cursor is gone.  reset_cursor, whose unlink may     *)
(* fail.                                                                   *)
PollGone_KeepsCursor(w) ==
  /\ pc[w] = "idle"
  /\ cursors[w] \in 1..pruned
  /\ disk' = [disk EXCEPT ![w] = 0]
  /\ once' = once \ RowsOf(w)
  /\ UNCHANGED <<platform, cursors, inbox, poller, uploads, crashes, recorded, missed,
                 twice, blamed, raw>>

PollGone(w) ==
  /\ pc[w] = "idle"
  /\ cursors[w] \in 1..pruned
  /\ cursors' = [cursors EXCEPT ![w] = 0]
  /\ \E d \in {0, disk[w]} : disk' = [disk EXCEPT ![w] = d]
  /\ once' = once \ RowsOf(w)
  /\ UNCHANGED <<platform, inbox, poller, uploads, crashes, recorded, missed,
                 twice, blamed, raw>>

-----------------------------------------------------------------------------
(* The rows of a response, one by one.                                     *)

NextRow(w, i) == i \in batch[w] /\ \A j \in batch[w] : i <= j

(* The poller is done with row i.                                          *)
Passes(w, i) ==
  /\ batch' = [batch EXCEPT ![w] = @ \ {i}]
  /\ last' = [last EXCEPT ![w] = i]
  /\ pc' = [pc EXCEPT ![w] = IF batch[w] = {i} THEN "saving" ELSE "reading"]
  /\ UNCHANGED top

(* The upload whose URI is in row i, 0 for none.                           *)
Subject(i) == IF log[i].kind = "upload" THEN i ELSE log[i].about

(* The rewriting of row i leaves the platform's URI in it.                 *)
StaysBare(i) == Subject(i) \in Rows \ cache

(* The queue with row i: a full one loses its head.                        *)
Enqueued(i) == Append(IF Len(queue) = Capacity THEN Tail(queue) ELSE queue, i)

(* record, under the lock: a row that is queued already is left alone,     *)
(* any other is appended, and whoever blocks on the event returns.         *)
Records(i, gaveUp) ==
  /\ IF i \in Queued
     THEN UNCHANGED inbox
     ELSE /\ queue' = Enqueued(i)
          /\ arrival' = TRUE
          /\ waits' = [c \in Waiter |->
                         IF waits[c] = "blocked" THEN "no" ELSE waits[c]]
  /\ recorded' = recorded \cup {i}
  /\ once' = once \cup {i}
  /\ twice' = IF i \in once \ Queued THEN twice \cup {i} ELSE twice
  /\ blamed' = blamed \cup gaveUp
  /\ raw' = IF StaysBare(i) /\ Subject(i) \notin blamed \cup gaveUp
              THEN raw \cup {i} ELSE raw

(* An echo of the workspace's own message is passed over.                  *)
SkipsOwn(w) ==
  /\ pc[w] = "reading"
  /\ \E i \in Rows : NextRow(w, i) /\ Own(i) /\ Passes(w, i)
  /\ UNCHANGED <<platform, position, inbox, uploads, crashes, ghosts>>

(* A message gets the URIs that the cache knows, and is queued.            *)
RecordsMessage(w) ==
  /\ pc[w] = "reading"
  /\ \E i \in Rows :
       /\ NextRow(w, i)
       /\ log[i].kind = "chat"
       /\ Records(i, {})
       /\ Passes(w, i)
  /\ UNCHANGED <<platform, position, uploads, crashes, missed>>

(* An upload is submitted to a worker, and waited for.                     *)
SubmitsUpload(w) ==
  /\ pc[w] = "reading"
  /\ \E i \in Rows :
       /\ NextRow(w, i)
       /\ log[i].kind = "upload"
       /\ fetch' = [fetch EXCEPT ![i] = "running"]
       /\ blamed' = blamed \ {i}
  /\ pc' = [pc EXCEPT ![w] = "fetching"]
  /\ UNCHANGED <<platform, position, inbox, batch, last, top, cache,
                 crashes, recorded, missed, once, twice, raw>>

(* wait_all returns, because the worker has ended or after its timeout;    *)
(* then the upload is a message like any other.                            *)
RecordsUpload(w) ==
  /\ pc[w] = "fetching"
  /\ \E i \in Rows :
       /\ NextRow(w, i)
       /\ fetch[i] = "none"
       /\ Records(i, {})
       /\ Passes(w, i)
  /\ UNCHANGED <<platform, position, uploads, crashes, missed>>

GivesUpUpload(w) ==
  /\ pc[w] = "fetching"
  /\ \E i \in Rows :
       /\ NextRow(w, i)
       /\ fetch[i] # "none"
       /\ Records(i, {i})
       /\ Passes(w, i)
  /\ UNCHANGED <<platform, position, uploads, crashes, missed>>

-----------------------------------------------------------------------------
(* The worker of an upload.                                                *)

(* The bytes cannot be had (a network error, too many of them), or are     *)
(* gone since an earlier acknowledgement, or cannot be written.            *)
FetchFails(f) ==
  /\ fetch[f] = "running"
  /\ fetch' = [fetch EXCEPT ![f] = "none"]
  /\ blamed' = blamed \cup {f}
  /\ UNCHANGED <<platform, position, inbox, poller, cache, crashes,
                 recorded, missed, once, twice, raw>>

(* The bytes are written and the URI is registered; the cache may lose     *)
(* another entry, and which of them is least recently used is left open.   *)
FetchStages(f) ==
  /\ fetch[f] = "running"
  /\ f \notin fetched
  /\ fetch' = [fetch EXCEPT ![f] = "staged"]
  /\ IF f \in cache \/ Cardinality(cache) < CacheSize
     THEN cache' = cache \cup {f} /\ UNCHANGED blamed
     ELSE \E g \in cache : /\ cache' = (cache \ {g}) \cup {f}
                           /\ blamed' = blamed \cup {g}
  /\ UNCHANGED <<platform, position, inbox, poller, crashes, recorded, missed,
                 once, twice, raw>>

(* The last request of the worker: the acknowledgement arrives or not.     *)
FetchEnds(f) ==
  /\ fetch[f] = "staged"
  /\ fetch' = [fetch EXCEPT ![f] = "none"]
  /\ \E got \in {fetched, fetched \cup {f}} : fetched' = got
  /\ UNCHANGED <<log, aged, pruned, acked, position, inbox, poller, cache,
                 crashes, ghosts>>

-----------------------------------------------------------------------------
(* The end of a poll: save_cursor, whose write may fail, and only after    *)
(* it succeeded the acknowledgement, which may get lost.  (With the        *)
(* mailbox kernel off none is sent, as if each were lost.)                 *)

PollEnds(w) ==
  /\ pc' = [pc EXCEPT ![w] = "idle"]
  /\ last' = [last EXCEPT ![w] = 0]
  /\ top' = [top EXCEPT ![w] = 0]

SavesCursor(w) ==
  /\ pc[w] = "saving"
  /\ cursors' = [cursors EXCEPT ![w] = last[w]]
  /\ disk' = [disk EXCEPT ![w] = last[w]]
  /\ pc' = [pc EXCEPT ![w] = "acking"]
  /\ UNCHANGED <<platform, inbox, batch, last, top, uploads, crashes, ghosts>>

CannotSave_Acks(w) ==
  /\ pc[w] = "saving"
  /\ cursors' = [cursors EXCEPT ![w] = last[w]]
  /\ pc' = [pc EXCEPT ![w] = "acking"]
  /\ UNCHANGED <<platform, disk, inbox, batch, last, top, uploads, crashes, ghosts>>

CannotSave(w) ==
  /\ pc[w] = "saving"
  /\ cursors' = [cursors EXCEPT ![w] = last[w]]
  /\ PollEnds(w)
  /\ UNCHANGED <<platform, disk, inbox, batch, uploads, crashes, ghosts>>

Acks(w) ==
  /\ pc[w] = "acking"
  /\ PollEnds(w)
  /\ \E a \in {acked[w], Later(acked[w], top[w])} : acked' = [acked EXCEPT ![w] = a]
  /\ UNCHANGED <<log, aged, pruned, fetched, position, inbox, batch, uploads,
                 crashes, ghosts>>

-----------------------------------------------------------------------------
(* The tools of the agent.                                                 *)

(* The event is cleared when the last message is popped.                   *)
StillArrived_Cleared == FALSE
StillArrived == arrival /\ Len(queue) > 1

(* inbox_pop; of a row that is not queued it changes nothing.              *)
Pops(k) ==
  /\ k \in 1..Len(queue)
  /\ queue' = SubSeq(queue, 1, k - 1) \o SubSeq(queue, k + 1, Len(queue))
  /\ arrival' = StillArrived
  /\ UNCHANGED <<platform, position, waits, poller, uploads, crashes, ghosts>>

(* wait: with a message queued it returns that at once.  Otherwise it      *)
(* clears the event under the lock, and blocks on it without the lock,     *)
(* until it is set: then it returns the head, or nothing when another call *)
(* has popped it.                                                          *)
WaitEnters(c) ==
  /\ waits[c] = "no"
  /\ queue = <<>>
  /\ arrival' = FALSE
  /\ waits' = [waits EXCEPT ![c] = "entering"]
  /\ UNCHANGED <<platform, position, queue, poller, uploads, crashes, ghosts>>

WaitBlocks(c) ==
  /\ waits[c] = "entering"
  /\ waits' = [waits EXCEPT ![c] = IF arrival THEN "no" ELSE "blocked"]
  /\ UNCHANGED <<platform, position, queue, arrival, poller, uploads, crashes, ghosts>>

(* The timeout.                                                            *)
WaitEnds(c) ==
  /\ waits[c] = "blocked"
  /\ waits' = [waits EXCEPT ![c] = "no"]
  /\ UNCHANGED <<platform, position, queue, arrival, poller, uploads, crashes, ghosts>>

(* The process ends anywhere, and is started again.                        *)
Restarts ==
  /\ crashes < MaxCrashes
  /\ crashes' = crashes + 1
  /\ cursors' = disk
  /\ queue' = <<>> /\ arrival' = FALSE /\ waits' = [c \in Waiter |-> "no"]
  /\ pc' = [w \in Workspace |-> "idle"] /\ batch' = [w \in Workspace |-> {}]
  /\ last' = [w \in Workspace |-> 0] /\ top' = [w \in Workspace |-> 0]
  /\ fetch' = [f \in Rows |-> "none"] /\ cache' = {} /\ blamed' = Rows
  /\ once' = {i \in once : i <= disk[log[i].ws]}
  /\ UNCHANGED <<platform, disk, recorded, missed, twice, raw>>

PollStep(w) ==
  \/ PollAfterCursor(w) \/ PollWindow(w) \/ PollGone(w)
  \/ SkipsOwn(w) \/ RecordsMessage(w)
  \/ SubmitsUpload(w) \/ RecordsUpload(w) \/ GivesUpUpload(w)
  \/ SavesCursor(w) \/ CannotSave(w) \/ Acks(w)

FetchStep(f) == FetchFails(f) \/ FetchStages(f) \/ FetchEnds(f)

WaitStep(c) == WaitEnters(c) \/ WaitBlocks(c) \/ WaitEnds(c)

Next ==
  \/ \E w \in Workspace : Arrives(w) \/ PollStep(w)
  \/ Ages \/ Prunes
  \/ \E f \in Rows : FetchStep(f)
  \/ \E k \in 1..Capacity : Pops(k)
  \/ \E c \in Waiter : WaitStep(c)
  \/ Restarts

(* The polling threads never stop; a request that fails is repeated after  *)
(* five seconds.                                                           *)
Spec == Init /\ [][Next]_vars /\ \A w \in Workspace : WF_vars(PollStep(w))

-----------------------------------------------------------------------------
(* Nobody blocks on the event while a message is queued: no pop or wait    *)
(* takes back the wake-up of a record.                                     *)
NoLostWakeup ==
  queue # <<>> => \A c \in Waiter : waits[c] # "blocked"

(* What a cursor, in memory or on disk, or an acknowledgement has left     *)
(* behind was recorded, unless the platform withheld it or it is an echo.  *)
NothingSkipped ==
  \A w \in Workspace : \A i \in RowsOf(w) :
    i <= cursors[w] \/ i <= disk[w] \/ i <= acked[w] =>
      Own(i) \/ i \in recorded \cup missed

(* No row is acknowledged that a restart would ask for again.              *)
AckIsDurable ==
  \A w \in Workspace : disk[w] # 0 => acked[w] <= disk[w]

(* A row is presented again only when the position of its workspace has    *)
(* fallen behind it: in a restart with an older cursor, or after a 410.    *)
OncePerRewind == twice = {}

(* The agent sees the bare URI of an upload only if its fetch failed, was  *)
(* given up, was evicted since, or belongs to an earlier process.          *)
RawHasCause == raw = {}

(* Each row reaches the agent once and whole, whatever fails and whatever  *)
(* the platform withholds in between.                                      *)
RowsAreKept == NothingSkipped /\ AckIsDurable /\ OncePerRewind /\ RawHasCause

(* Again and again every row logged so far is recorded, unless the         *)
(* platform withholds it: no cursor, 410 or failed write stops the poller. *)
CatchesUp ==
  []<>(\A i \in DOMAIN log : Own(i) \/ i \in recorded \cup missed)

=============================================================================
