----------------------------- MODULE TurnExecutor -----------------------------
(***************************************************************************)
(* How the native executor of the workspace runtime turns A2A requests     *)
(* into agent turns: RuntimeA2AExecutor._core_execute and cancel in        *)
(* a2a_executor.py over the per-context InboxEntry of runtime_inbox.py,    *)
(* with the delegation-results file every request consumes on arrival.     *)
(*                                                                         *)
(* Each request is served by an asyncio task of its own.  One action is    *)
(* the code between two awaits of that task, so every interleaving of the  *)
(* tasks the event loop can produce is a behaviour.  The non-blocking flag *)
(* is on, its default.                                                     *)
(***************************************************************************)
EXTENDS Naturals, Sequences, FiniteSets

CONSTANTS Request,    \* the A2A requests that may arrive
          Context,    \* the conversations (context ids)
          Result,     \* the delegation results that peers may send back
          ctxOf,      \* the conversation of a request
          kindOf,     \* what a request is, one of Kind
          QueueMax,   \* MOLECULE_A2A_INBOX_MAXSIZE
          MaxStops    \* bound: how many requests are asked to stop

(***************************************************************************)
(* "user"   no source marker, or a marker that is not of the self- family  *)
(* "file"   a user message with attachments and no text                    *)
(* "idle"   the self-idle wake-up                                          *)
(* "cron"   any other routine self ping (cron, harvester, scheduler, ...)  *)
(* "legacy" a routine ping without a marker, recognised by its text prefix *)
(* "wake"   a self- marker that is not routine (self-stall, self-warmup)   *)
(***************************************************************************)
Kind == {"user", "file", "idle", "cron", "legacy", "wake"}

None == "none"

ASSUME TurnAssumption ==
  /\ ctxOf \in [Request -> Context]
  /\ kindOf \in [Request -> Kind]
  /\ QueueMax \in Nat \ {0}
  /\ MaxStops \in Nat

VARIABLES
  pc,          \* where the task that serves a request stands
  fate,        \* what has become of the message of a request
  cancel,      \* whether the task was asked to stop, and was hit by it
  held,        \* the delegation results injected into a request
  resultsFile, \* DELEGATION_RESULTS_FILE
  known,       \* the contexts that have an InboxEntry
  inFlight,    \* InboxEntry.turn_in_flight
  source,      \* InboxEntry.in_flight_source_type
  preempt,     \* InboxEntry.preempt_requested
  interrupt,   \* InboxEntry.interrupt_event
  pending,     \* InboxEntry.pending_messages
  active       \* HeartbeatLoop.active_tasks

entryVars == <<known, inFlight, source, preempt, interrupt, pending>>
vars == <<pc, fate, cancel, held, resultsFile, entryVars, active>>

(***************************************************************************)
(* A task is live while it runs the turn of its context.                   *)
(***************************************************************************)
LivePC == {"starting", "streaming", "closing", "publishing", "failing",
           "releasing"}
PC == {"new", "arriving", "done"} \cup LivePC

Open == {"none", "queued", "working"}
Settled == {"answered", "streamed", "yielded", "suppressed", "failed",
            "stopped", "cancelled", "dropped", "busy", "rejected",
            "withdrawn"}
Fate == Open \cup Settled

TypeOK ==
  /\ pc \in [Request -> PC]
  /\ fate \in [Request -> Fate]
  /\ cancel \in [Request -> {"no", "asked", "hit"}]
  /\ held \in [Request -> SUBSET Result]
  /\ resultsFile \in SUBSET Result
  /\ known \in SUBSET Context
  /\ inFlight \in [Context -> BOOLEAN]
  /\ source \in [Context -> Kind \cup {None}]
  /\ preempt \in [Context -> BOOLEAN]
  /\ interrupt \in [Context -> BOOLEAN]
  /\ pending \in [Context -> Seq(Request)]
  /\ \A c \in Context : Len(pending[c]) <= QueueMax
  /\ active \in Nat

-----------------------------------------------------------------------------
(* What the executor reads off a request.                                  *)

SourceType(r) == IF kindOf[r] \in {"user", "file", "legacy"}
                 THEN None ELSE kindOf[r]

IsSelf(r) == SourceType(r) \in {"idle", "cron", "wake"}

(* Computed once, from the message as it arrived.                          *)
IsRoutineTurn(r) == kindOf[r] \in {"idle", "cron", "legacy"}

(* Recomputed on the fast path, after results were put in front of the     *)
(* text: a prefix then no longer matches.                                  *)
IsRoutineNow(r) == \/ kindOf[r] \in {"idle", "cron"}
                   \/ kindOf[r] = "legacy" /\ held[r] = {}

(* The task label is the text; a message of files alone has none.          *)
HasLabel(r) == kindOf[r] # "file" \/ held[r] # {}

Live(r) == pc[r] \in LivePC

(* The requests whose content the current pass of a context's turn is      *)
(* answering, and those waiting in its queue.                              *)
Working(c) == {q \in Request : ctxOf[q] = c /\ fate[q] = "working"}
Waiting(c) == {q \in Request : ctxOf[q] = c /\ fate[q] = "queued"}

(* The fates after the current pass of c ends in `end' and the messages    *)
(* drained from its queue get `next'.                                      *)
PassEnds(c, end, next) ==
  [q \in Request |-> IF q \in Working(c) THEN end
                     ELSE IF \E i \in 1..Len(pending[c]) : pending[c][i] = q
                          THEN next ELSE fate[q]]

(* Mutant: the event is cleared and the queue left as it is.               *)
ConsumePending_KeepsQueue(c) ==
  /\ interrupt' = [interrupt EXCEPT ![c] = FALSE]
  /\ UNCHANGED pending

(* InboxEntry.consume_pending: empty the queue and clear the event.        *)
ConsumePending(c) ==
  /\ pending' = [pending EXCEPT ![c] = <<>>]
  /\ interrupt' = [interrupt EXCEPT ![c] = FALSE]

(* read_delegation_results: all that is in the file goes to the request    *)
(* that reads it.                                                          *)
TakeResults(r) ==
  /\ held' = [held EXCEPT ![r] = resultsFile]
  /\ resultsFile' = {}

(* set_current_task(heartbeat, label) before its HTTP push.                *)
TaskCount(labelled) == IF labelled THEN active + 1
                       ELSE IF active > 0 THEN active - 1 ELSE 0

Init ==
  /\ pc = [r \in Request |-> "new"]
  /\ fate = [r \in Request |-> "none"]
  /\ cancel = [r \in Request |-> "no"]
  /\ held = [r \in Request |-> {}]
  /\ resultsFile = {}
  /\ known = {}
  /\ inFlight = [c \in Context |-> FALSE]
  /\ source = [c \in Context |-> None]
  /\ preempt = [c \in Context |-> FALSE]
  /\ interrupt = [c \in Context |-> FALSE]
  /\ pending = [c \in Context |-> <<>>]
  /\ active = 0

-----------------------------------------------------------------------------
(* Arrival.                                                                *)

(* The heartbeat's harvester appends a finished delegation to the file.    *)
Harvest(d) ==
  /\ d \notin resultsFile
  /\ \A r \in Request : d \notin held[r]
  /\ resultsFile' = resultsFile \cup {d}
  /\ UNCHANGED <<pc, fate, cancel, held, entryVars, active>>

(* The task starts: it consumes the results file before anything else.     *)
Receive(r) ==
  /\ pc[r] = "new"
  /\ TakeResults(r)
  /\ pc' = [pc EXCEPT ![r] = "arriving"]
  /\ UNCHANGED <<fate, cancel, entryVars, active>>

(* Early return: an empty message, or one the injection check blocks.      *)
Reject(r) ==
  /\ pc[r] = "new"
  /\ TakeResults(r)
  /\ pc' = [pc EXCEPT ![r] = "done"]
  /\ fate' = [fate EXCEPT ![r] = "rejected"]
  /\ UNCHANGED <<cancel, entryVars, active>>

(* Mutant: the slot of the context is not looked at.                       *)
EnterTurn_SlotUnchecked(r) ==
  LET c == ctxOf[r] IN
  /\ pc[r] = "arriving"
  /\ known' = known \cup {c}
  /\ inFlight' = [inFlight EXCEPT ![c] = TRUE]
  /\ source' = [source EXCEPT ![c] = SourceType(r)]
  /\ preempt' = [preempt EXCEPT ![c] = FALSE]
  /\ pc' = [pc EXCEPT ![r] = "starting"]
  /\ fate' = [fate EXCEPT ![r] = "working"]
  /\ active' = TaskCount(HasLabel(r))
  /\ UNCHANGED <<cancel, held, resultsFile, interrupt, pending>>

(* No turn in flight: this task becomes the turn of its context.           *)
EnterTurn(r) ==
  LET c == ctxOf[r] IN
  /\ pc[r] = "arriving"
  /\ ~inFlight[c]
  /\ known' = known \cup {c}
  /\ inFlight' = [inFlight EXCEPT ![c] = TRUE]
  /\ source' = [source EXCEPT ![c] = SourceType(r)]
  /\ preempt' = [preempt EXCEPT ![c] = FALSE]
  /\ pc' = [pc EXCEPT ![r] = "starting"]
  /\ fate' = [fate EXCEPT ![r] = "working"]
  /\ active' = TaskCount(HasLabel(r))
  /\ UNCHANGED <<cancel, held, resultsFile, interrupt, pending>>

(* The fast path: a turn is in flight, the request ends at once.           *)
FastPath(r, end) ==
  LET c == ctxOf[r] IN
  /\ pc[r] = "arriving"
  /\ inFlight[c]
  /\ known' = known \cup {c}
  /\ pc' = [pc EXCEPT ![r] = "done"]
  /\ fate' = [fate EXCEPT ![r] = end]
  /\ UNCHANGED <<cancel, held, resultsFile, inFlight, source, active>>

Preempts(r) == source[ctxOf[r]] = "idle" /\ ~IsSelf(r)
HasRoom(c) == Len(pending[c]) < QueueMax

(* A routine self ping is acknowledged and dropped.                        *)
EnterDrop(r) ==
  /\ IsRoutineNow(r)
  /\ FastPath(r, "dropped")
  /\ UNCHANGED <<preempt, interrupt, pending>>

(* request_interrupt: a user message preempts a self-idle turn.            *)
EnterPreempt(r) ==
  LET c == ctxOf[r] IN
  /\ ~IsRoutineNow(r)
  /\ Preempts(r)
  /\ HasRoom(c)
  /\ FastPath(r, "queued")
  /\ pending' = [pending EXCEPT ![c] = Append(@, r)]
  /\ preempt' = [preempt EXCEPT ![c] = TRUE]
  /\ interrupt' = [interrupt EXCEPT ![c] = TRUE]

(* defer_message: queued for the running turn to drain.                    *)
EnterDefer(r) ==
  LET c == ctxOf[r] IN
  /\ ~IsRoutineNow(r)
  /\ ~Preempts(r)
  /\ HasRoom(c)
  /\ FastPath(r, "queued")
  /\ pending' = [pending EXCEPT ![c] = Append(@, r)]
  /\ UNCHANGED <<preempt, interrupt>>

(* The queue is at its limit: structured backpressure.                     *)
EnterBusy(r) ==
  /\ ~IsRoutineNow(r)
  /\ ~HasRoom(ctxOf[r])
  /\ FastPath(r, "busy")
  /\ UNCHANGED <<preempt, interrupt, pending>>

-----------------------------------------------------------------------------
(* The turn.                                                               *)

(* The heartbeat push of set_current_task has returned.                    *)
Start(r) ==
  /\ pc[r] = "starting"
  /\ pc' = [pc EXCEPT ![r] = "streaming"]
  /\ UNCHANGED <<fate, cancel, held, resultsFile, entryVars, active>>

(* An event arrived and the interrupt is set: close the stream.            *)
SeeInterrupt(r) ==
  /\ pc[r] = "streaming"
  /\ interrupt[ctxOf[r]]
  /\ pc' = [pc EXCEPT ![r] = "closing"]
  /\ UNCHANGED <<fate, cancel, held, resultsFile, entryVars, active>>

(* The stream is closed and a preemption is pending: the queued messages   *)
(* become the next pass of this turn.                                      *)
RunPreempting(r) ==
  LET c == ctxOf[r] IN
  /\ pc[r] = "closing"
  /\ preempt[c] /\ pending[c] # <<>>
  /\ ConsumePending(c)
  /\ preempt' = [preempt EXCEPT ![c] = FALSE]
  /\ source' = [source EXCEPT ![c] = None]
  /\ fate' = PassEnds(c, "yielded", "working")
  /\ pc' = [pc EXCEPT ![r] = "streaming"]
  /\ UNCHANGED <<cancel, held, resultsFile, known, inFlight, active>>

(* The stream is closed by an explicit Stop: the queue is discarded.       *)
StopTurn(r) ==
  LET c == ctxOf[r] IN
  /\ pc[r] = "closing"
  /\ ~(preempt[c] /\ pending[c] # <<>>)
  /\ ConsumePending(c)
  /\ preempt' = [preempt EXCEPT ![c] = FALSE]
  /\ fate' = PassEnds(c, "stopped", "stopped")
  /\ pc' = [pc EXCEPT ![r] = "publishing"]
  /\ UNCHANGED <<cancel, held, resultsFile, known, inFlight, source, active>>

(* Mutant: the follow-up pass takes only the oldest message.               *)
DrainDeferred_TakesHead(r) ==
  LET c == ctxOf[r] IN
  /\ pc[r] = "streaming"
  /\ pending[c] # <<>>
  /\ pending' = [pending EXCEPT ![c] = Tail(@)]
  /\ interrupt' = [interrupt EXCEPT ![c] = FALSE]
  /\ preempt' = [preempt EXCEPT ![c] = FALSE]
  /\ source' = [source EXCEPT ![c] = None]
  /\ fate' = [q \in Request |-> IF q \in Working(c) THEN "streamed"
                                 ELSE IF q = Head(pending[c]) THEN "working"
                                 ELSE fate[q]]
  /\ UNCHANGED <<pc, cancel, held, resultsFile, known, inFlight, active>>

(* The stream ended by itself with messages deferred meanwhile: they       *)
(* become the next pass.                                                   *)
DrainDeferred(r) ==
  LET c == ctxOf[r] IN
  /\ pc[r] = "streaming"
  /\ pending[c] # <<>>
  /\ ConsumePending(c)
  /\ preempt' = [preempt EXCEPT ![c] = FALSE]
  /\ source' = [source EXCEPT ![c] = None]
  /\ fate' = PassEnds(c, "streamed", "working")
  /\ UNCHANGED <<pc, cancel, held, resultsFile, known, inFlight, active>>

(* The stream ended by itself and nothing waits: on to the final message.  *)
StreamEnds(r) ==
  LET c == ctxOf[r] IN
  /\ pc[r] = "streaming"
  /\ pending[c] = <<>>
  /\ ConsumePending(c)
  /\ pc' = [pc EXCEPT ![r] = "publishing"]
  /\ UNCHANGED <<fate, cancel, held, resultsFile, known, inFlight, source,
                 preempt, active>>

(* The final message is out; the replay guard may have replaced its text   *)
(* when the turn was started by a routine ping.                            *)
Publish(r) ==
  LET c == ctxOf[r] IN
  /\ pc[r] = "publishing"
  /\ \/ fate' = PassEnds(c, "answered", "queued")
     \/ IsRoutineTurn(r) /\ fate' = PassEnds(c, "suppressed", "queued")
  /\ pc' = [pc EXCEPT ![r] = "releasing"]
  /\ active' = TaskCount(FALSE)
  /\ UNCHANGED <<cancel, held, resultsFile, entryVars>>

(* Mutant: the turn is retried for as long as it fails.                    *)
TurnRaises_Retries(r) ==
  /\ pc[r] \in {"starting", "streaming", "publishing"}
  /\ pc' = [pc EXCEPT ![r] = "starting"]
  /\ UNCHANGED <<fate, cancel, held, resultsFile, entryVars, active>>

(* Any exception: a provider error, or the idle cap with no live activity. *)
TurnRaises(r) ==
  /\ pc[r] \in {"starting", "streaming", "publishing"}
  /\ pc' = [pc EXCEPT ![r] = "failing"]
  /\ UNCHANGED <<fate, cancel, held, resultsFile, entryVars, active>>

(* The failure is reported; the queue is left as it is.                    *)
ReportFailure(r) ==
  LET c == ctxOf[r] IN
  /\ pc[r] = "failing"
  /\ fate' = PassEnds(c, "failed", "queued")
  /\ pc' = [pc EXCEPT ![r] = "releasing"]
  /\ active' = TaskCount(FALSE)
  /\ UNCHANGED <<cancel, held, resultsFile, entryVars>>

(* Mutant: the slot is freed and the interrupt event left set.             *)
Release_KeepsInterrupt(r) ==
  LET c == ctxOf[r] IN
  /\ pc[r] = "releasing"
  /\ pc' = [pc EXCEPT ![r] = "done"]
  /\ inFlight' = [inFlight EXCEPT ![c] = FALSE]
  /\ source' = [source EXCEPT ![c] = None]
  /\ preempt' = [preempt EXCEPT ![c] = FALSE]
  /\ UNCHANGED <<fate, cancel, held, resultsFile, known, interrupt, pending,
                 active>>

(* The finally block, past its heartbeat push: the slot is free again.     *)
Release(r) ==
  LET c == ctxOf[r] IN
  /\ pc[r] = "releasing"
  /\ pc' = [pc EXCEPT ![r] = "done"]
  /\ inFlight' = [inFlight EXCEPT ![c] = FALSE]
  /\ interrupt' = [interrupt EXCEPT ![c] = FALSE]
  /\ source' = [source EXCEPT ![c] = None]
  /\ preempt' = [preempt EXCEPT ![c] = FALSE]
  /\ UNCHANGED <<fate, cancel, held, resultsFile, known, pending, active>>

-----------------------------------------------------------------------------
(* Stop.                                                                   *)

(* tasks/cancel for the task of request r, which has not ended: the entry  *)
(* of its context, if there is one, gets its interrupt event set.          *)
Cancel(r) ==
  LET c == ctxOf[r] IN
  /\ pc[r] \notin {"new", "done"}
  /\ cancel[r] = "no"
  /\ Cardinality({q \in Request : cancel[q] # "no"}) < MaxStops
  /\ cancel' = [cancel EXCEPT ![r] = "asked"]
  /\ interrupt' = [interrupt EXCEPT ![c] = @ \/ c \in known]
  /\ UNCHANGED <<pc, fate, held, resultsFile, known, inFlight, source,
                 preempt, pending, active>>

(* After cancel() the server also cancels the asyncio task, which raises   *)
(* CancelledError in its current await: before the turn nothing is undone. *)
ArrivalCancelled(r) ==
  /\ pc[r] = "arriving"
  /\ cancel[r] = "asked"
  /\ cancel' = [cancel EXCEPT ![r] = "hit"]
  /\ fate' = [fate EXCEPT ![r] = "withdrawn"]
  /\ pc' = [pc EXCEPT ![r] = "done"]
  /\ UNCHANGED <<held, resultsFile, entryVars, active>>

(* Mutant: the counter is left alone when the turn is cancelled (#2026).   *)
TaskCancelled_KeepsCount(r) ==
  LET c == ctxOf[r] IN
  /\ pc[r] \in LivePC \ {"releasing"}
  /\ cancel[r] = "asked"
  /\ cancel' = [cancel EXCEPT ![r] = "hit"]
  /\ fate' = PassEnds(c, "cancelled", "queued")
  /\ pc' = [pc EXCEPT ![r] = "releasing"]
  /\ UNCHANGED <<held, resultsFile, entryVars, active>>

(* The same during the turn: `except Exception' lets CancelledError pass,  *)
(* the finally block runs.                                                 *)
TaskCancelled(r) ==
  LET c == ctxOf[r] IN
  /\ pc[r] \in LivePC \ {"releasing"}
  /\ cancel[r] = "asked"
  /\ cancel' = [cancel EXCEPT ![r] = "hit"]
  /\ fate' = PassEnds(c, "cancelled", "queued")
  /\ pc' = [pc EXCEPT ![r] = "releasing"]
  /\ active' = TaskCount(FALSE)
  /\ UNCHANGED <<held, resultsFile, entryVars>>

(* The same in the await of the finally block: the rest of it is skipped.  *)
ReleaseCancelled(r) ==
  /\ pc[r] = "releasing"
  /\ cancel[r] = "asked"
  /\ cancel' = [cancel EXCEPT ![r] = "hit"]
  /\ pc' = [pc EXCEPT ![r] = "done"]
  /\ UNCHANGED <<fate, held, resultsFile, entryVars, active>>

-----------------------------------------------------------------------------
Enter(r) == EnterTurn(r) \/ EnterDrop(r) \/ EnterPreempt(r) \/ EnterDefer(r)
            \/ EnterBusy(r)

(* What the task of r does next once it is running.                        *)
Advance(r) ==
  \/ Start(r) \/ SeeInterrupt(r) \/ RunPreempting(r) \/ StopTurn(r)
  \/ DrainDeferred(r) \/ StreamEnds(r) \/ Publish(r) \/ TurnRaises(r)
  \/ ReportFailure(r) \/ Release(r) \/ TaskCancelled(r) \/ ReleaseCancelled(r)

Next ==
  \/ \E d \in Result : Harvest(d)
  \/ \E r \in Request : \/ Receive(r) \/ Reject(r) \/ ArrivalCancelled(r)
                        \/ Enter(r) \/ Advance(r) \/ Cancel(r)

(* The event loop runs every ready task, and a stream ends: the graph has  *)
(* a recursion limit and a silent one meets the idle cap.                  *)
Fairness == \A r \in Request : WF_vars(Enter(r)) /\ WF_vars(Advance(r))

Spec == Init /\ [][Next]_vars /\ Fairness

-----------------------------------------------------------------------------
(* Properties.                                                             *)

(* No two tasks of one conversation run the agent at the same time, and    *)
(* the one that does owns the slot later requests look at.                 *)
OneTurnPerContext ==
  /\ \A r, q \in Request :
        Live(r) /\ Live(q) /\ ctxOf[r] = ctxOf[q] => r = q
  /\ \A r \in Request : Live(r) => inFlight[ctxOf[r]]

(* A pass is only ever open to preemption, or already asked to yield, when *)
(* nobody but the idle loop is waiting for its answer: a user message      *)
(* never cuts off the answer to another one.                               *)
OnlyIdleYields ==
  \A c \in Context :
     source[c] = "idle" \/ preempt[c]
       => \A q \in Working(c) : kindOf[q] = "idle"

(* An acknowledged message is in the queue of its conversation exactly     *)
(* once until a turn takes it, and nothing else is in there: neither the   *)
(* interrupted, failed nor cancelled turn in front of it loses it.         *)
QueuedIsPending ==
  /\ \A c \in Context :
        /\ \A i \in 1..Len(pending[c]) : pending[c][i] \in Waiting(c)
        /\ \A i, j \in 1..Len(pending[c]) :
              pending[c][i] = pending[c][j] => i = j
  /\ \A q \in Request : fate[q] = "queued" =>
        \E i \in 1..Len(pending[ctxOf[q]]) : pending[ctxOf[q]][i] = q

(* Only the live turn of a conversation has messages in work: a message    *)
(* is never left "in work" by a turn that is over.                         *)
WorkHasTurn ==
  \A q \in Request : fate[q] = "working" =>
     \E r \in Request : ctxOf[r] = ctxOf[q] /\ Live(r) /\ pc[r] # "releasing"

(* With no turn in flight the interrupt of a conversation is set only by a *)
(* Stop that came before its request got to run: what was meant for a turn *)
(* is gone with that turn, and cannot hit the next one.                    *)
NoStrayInterrupt ==
  \A c \in Context : interrupt[c] /\ ~inFlight[c] =>
     \E r \in Request :
        /\ ctxOf[r] = c
        /\ cancel[r] # "no"
        /\ pc[r] = "arriving" \/ fate[r] = "withdrawn"

(* The heartbeat never reports more active tasks than turns are running:   *)
(* the platform would take the workspace for busy and stop sending.        *)
NoPhantomBusy ==
  active <= Cardinality({r \in Request : Live(r) /\ pc[r] # "releasing"})

(* A delegation result is given to the agent at most once.                 *)
ResultGivenOnce ==
  /\ \A r, q \in Request : r # q => held[r] \cap held[q] = {}
  /\ \A r \in Request : held[r] \cap resultsFile = {}

(* What the executor took on it keeps and gives out once: a queued message *)
(* waits in its queue, only an idle turn makes way for it, what is in work *)
(* has its turn, and a delegation result has one.                          *)
WorkIsKept == QueuedIsPending /\ OnlyIdleYields /\ WorkHasTurn /\ ResultGivenOnce

(* The executor keeps the promise made to the senders: TurnService.        *)
Promise(f) == CASE f = "none" -> "new"
                [] f = "queued" -> "accepted"
                [] f = "working" -> "active"
                [] f \in {"answered", "streamed"} -> "replied"
                [] f \in {"dropped", "busy", "rejected", "withdrawn"}
                        -> "refused"
                [] OTHER -> "abandoned"

Service == INSTANCE TurnService
             WITH status <- [r \in Request |-> Promise(fate[r])]

KeepsPromise == Service!Spec

(* Every turn comes to its end, also when the provider fails or the user   *)
(* presses Stop in the middle of it.                                       *)
TurnsEnd == \A r \in Request : Live(r) ~> pc[r] = "done"

(* "Done in the finally so a mid-turn exception can't leak                 *)
(* turn_in_flight=True and dead-end the workspace" (a2a_executor.py:1358): *)
(* whatever ends a turn, its slot is free afterwards.                      *)
SlotReleased ==
  \A c \in Context : inFlight[c] =>
     \E r \in Request : ctxOf[r] = c /\ Live(r)
=============================================================================
