--------------------------- MODULE DelegationHarvest ---------------------------
(***************************************************************************)
(* How the result of a delegated task finds its way back to the agent:     *)
(* the background task of builtin_tools/delegation.py that runs a          *)
(* delegation and mirrors its outcome on the platform, the poll of         *)
(* HeartbeatLoop._check_delegations that appends finished delegations to   *)
(* the results file and wakes the agent.  Who consumes the file, and what  *)
(* becomes of its lines, is in TurnExecutor.  The mailbox kernel is on.    *)
(*                                                                         *)
(* All of it runs on one event loop: an action is the code between two     *)
(* awaits.  The results file and the tombstones survive a restart, the     *)
(* rest of the state is in memory.                                         *)
(***************************************************************************)
EXTENDS Naturals, Sequences, FiniteSets

CONSTANTS Delegation,  \* the delegations of the agent
          Old,         \* those that were delivered, and left history and
                       \* listing, before the behaviour begins
          HistoryMax,  \* MAX_DELEGATION_HISTORY
          SeenMax,     \* MAX_SEEN_DELEGATION_IDS
          MaxWakes,    \* _MAX_WAKE_ATTEMPTS
          MaxRestarts, \* bound: how often the workspace is restarted
          MaxEvictions \* bound: how often the seen ids are cut down

ASSUME HarvestAssumption ==
  /\ Old \subseteq Delegation
  /\ HistoryMax \in Nat
  /\ SeenMax \in Nat
  /\ MaxWakes \in Nat \ {0}
  /\ MaxRestarts \in Nat
  /\ MaxEvictions \in Nat

VARIABLES
  task,      \* the background task and local status of a delegation
  order,     \* the delegations of this process, in the order of their start
  tracked,   \* the keys of _delegations: what the agent is awaiting
  row,       \* its row in the platform's list of delegations
  seen,      \* _seen_delegation_ids
  written,   \* _results_written
  retries,   \* _wake_retries, 0 for an absent key
  tombs,     \* _harvest_tombstones, on disk
  file,      \* how many lines of a delegation were appended to the results file
  phase,     \* where _check_delegations stands
  batch,     \* its new_results
  cooling,   \* whether the self-message cooldown is running
  restarts, evictions,
  (* Kept for the properties only: *)
  wakes,     \* how many self-wakes have announced it
  forgotten, \* what evictions have dropped from seen
  torn       \* what failed writes have lost though marked as written

taskVars == <<task, order, tracked, row>>
pollVars == <<seen, written, retries, tombs, phase, batch, cooling>>
ghosts == <<evictions, wakes, forgotten, torn>>
vars == <<taskVars, pollVars, file, restarts, ghosts>>

(***************************************************************************)
(* "running"    the background task discovers the peer and posts to it, or *)
(*              has died of an exception it does not catch                 *)
(* "queued"     the peer's proxy accepted the request for later            *)
(* "mirroring"  the outcome is known here and on its way to the platform   *)
(* "settled"    the outcome is known here, the background task is over     *)
(* "lost"       started by a process that is gone                          *)
(***************************************************************************)
Task == {"none", "running", "queued", "mirroring", "settled", "lost"}

(* Completed and failed rows are treated alike; "gone" is a finished row   *)
(* that has left the listing.                                              *)
Row == {"open", "finished", "gone"}

TypeOK ==
  /\ task \in [Delegation -> Task]
  /\ order \in Seq(Delegation)
  /\ tracked \in SUBSET Delegation
  /\ row \in [Delegation -> Row]
  /\ seen \in SUBSET Delegation
  /\ written \in SUBSET Delegation
  /\ retries \in [Delegation -> 0..(MaxWakes - 1)]
  /\ tombs \in SUBSET Delegation
  /\ file \in [Delegation -> Nat]
  /\ phase \in {"idle", "resolving", "waking"}
  /\ batch \in SUBSET Delegation
  /\ cooling \in BOOLEAN
  /\ restarts \in 0..MaxRestarts
  /\ evictions \in 0..MaxEvictions
  /\ wakes \in [Delegation -> Nat]
  /\ forgotten \in SUBSET Delegation
  /\ torn \in SUBSET Delegation

Init ==
  /\ task = [d \in Delegation |-> IF d \in Old THEN "settled" ELSE "none"]
  /\ order = <<>>
  /\ tracked = {}
  /\ row = [d \in Delegation |-> IF d \in Old THEN "gone" ELSE "open"]
  /\ seen = Old
  /\ written = {}
  /\ retries = [d \in Delegation |-> 0]
  /\ tombs = Old
  /\ file = [d \in Delegation |-> IF d \in Old THEN 1 ELSE 0]
  /\ phase = "idle"
  /\ batch = {}
  /\ cooling = FALSE
  /\ restarts = 0
  /\ evictions = 0
  /\ wakes = [d \in Delegation |-> IF d \in Old THEN 1 ELSE 0]
  /\ forgotten = {}
  /\ torn = {}

-----------------------------------------------------------------------------
(* The delegation and its background task.                                 *)

Before(x, y) == \E i, j \in 1..Len(order) :
                   i < j /\ order[i] = x /\ order[j] = y

(* _evict_old_delegations on a history T: the oldest finished entries go,  *)
(* as many as it is over the limit.                                        *)
Evicted(T) ==
  LET removable == {d \in T : task[d] \in {"mirroring", "settled"}}
      over == Cardinality(T) - HistoryMax
  IN  {d \in removable :
         Cardinality({e \in removable : Before(e, d)}) < over}

(* delegate_task_async.                                                    *)
Delegate(d) ==
  /\ task[d] = "none"
  /\ task' = [task EXCEPT ![d] = "running"]
  /\ order' = Append(order, d)
  /\ LET T == tracked \cup {d} IN tracked' = T \ Evicted(T)
  /\ UNCHANGED <<row, pollVars, file, restarts, ghosts>>

(* The peer cannot be discovered, or answers with no JSON: the task ends   *)
(* here without a word to the platform.                                    *)
FailsEarly(d) ==
  /\ task[d] = "running"
  /\ task' = [task EXCEPT ![d] = "settled"]
  /\ UNCHANGED <<order, tracked, row, pollVars, file, restarts, ghosts>>

(* The peer answered, or the last attempt failed.                          *)
Settles(d) ==
  /\ task[d] = "running"
  /\ task' = [task EXCEPT ![d] = "mirroring"]
  /\ UNCHANGED <<order, tracked, row, pollVars, file, restarts, ghosts>>

(* 202: the peer is busy, the platform keeps the request.                  *)
Queues(d) ==
  /\ task[d] = "running"
  /\ task' = [task EXCEPT ![d] = "queued"]
  /\ UNCHANGED <<order, tracked, row, pollVars, file, restarts, ghosts>>

(* _update_delegation_on_platform, best effort.                            *)
Mirrors(d) ==
  /\ task[d] = "mirroring"
  /\ task' = [task EXCEPT ![d] = "settled"]
  /\ \E outcome \in {"open", "finished"} : row' = [row EXCEPT ![d] = outcome]
  /\ UNCHANGED <<order, tracked, pollVars, file, restarts, ghosts>>

(* The platform delivers the queued request and stores the reply.          *)
PlatformFinishes(d) ==
  /\ task[d] = "queued"
  /\ row[d] = "open"
  /\ row' = [row EXCEPT ![d] = "finished"]
  /\ UNCHANGED <<task, order, tracked, pollVars, file, restarts, ghosts>>

(* check_task_status on a queued delegation: _refresh_queued_from_platform *)
(* finds the outcome in the list.                                          *)
Refresh(d) ==
  /\ task[d] = "queued"
  /\ d \in tracked
  /\ row[d] = "finished"
  /\ task' = [task EXCEPT ![d] = "settled"]
  /\ UNCHANGED <<order, tracked, row, pollVars, file, restarts, ghosts>>

(* The list is bounded: an old row leaves it.                              *)
LeavesListing(d) ==
  /\ row[d] = "finished"
  /\ row' = [row EXCEPT ![d] = "gone"]
  /\ UNCHANGED <<task, order, tracked, pollVars, file, restarts, ghosts>>

-----------------------------------------------------------------------------
(* The poll.                                                               *)

(* The rows this poll marks as seen.                                       *)
Noticed == {d \in tracked \ seen : row[d] = "finished"}

(* new_results: those that have no tombstone.                              *)
NewResults == Noticed \ tombs

(* A retry this poll did not harvest again has nothing left to deliver.    *)
DropStale == retries' = [d \in Delegation |->
                           IF d \in NewResults THEN retries[d] ELSE 0]

StillWritten == {d \in written : retries[d] = 0 \/ d \in NewResults}

(* What may be left of the seen ids S: over the limit, half the limit of   *)
(* them is dropped, in no order.                                           *)
Kept(S) == IF Cardinality(S) > SeenMax
           THEN {K \in SUBSET S : Cardinality(S \ K) = SeenMax \div 2}
           ELSE {S}

(* Append a line for each of W to the results file.                        *)
AddLines(W) == file' = [d \in Delegation |->
                          file[d] + IF d \in W THEN 1 ELSE 0]

(* What the poll drops from the seen ids, kept for the properties.         *)
Forget(S) ==
  /\ forgotten' = forgotten \cup S
  /\ evictions' = evictions + IF S = {} THEN 0 ELSE 1

(* A poll may start and leave K of the seen ids.                           *)
PollDue(K) ==
  /\ phase = "idle"
  /\ ~cooling
  /\ K \in Kept(seen \cup Noticed)
  /\ (seen \cup Noticed # K) => (evictions < MaxEvictions)

(* Mutant: a line is written whether or not an earlier poll wrote it.      *)
PollFinds_Rewrites(K) ==
  /\ PollDue(K)
  /\ NewResults # {}
  /\ seen' = K
  /\ Forget((seen \cup Noticed) \ K)
  /\ DropStale
  /\ AddLines(NewResults)
  /\ written' = StillWritten \cup NewResults
  /\ phase' = "resolving"
  /\ batch' = NewResults
  /\ UNCHANGED <<taskVars, tombs, cooling, restarts, wakes, torn>>

(* New results: append those that are not in the file yet, then find out   *)
(* who the parent is.  K is what eviction leaves of the seen ids.          *)
PollFinds(K) ==
  /\ PollDue(K)
  /\ NewResults # {}
  /\ seen' = K
  /\ Forget((seen \cup Noticed) \ K)
  /\ DropStale
  /\ AddLines(NewResults \ StillWritten)
  /\ written' = StillWritten \cup NewResults
  /\ phase' = "resolving"
  /\ batch' = NewResults
  /\ UNCHANGED <<taskVars, tombs, cooling, restarts, wakes, torn>>

(* Mutant: the results of a failed append stay marked as seen.             *)
PollCannotWrite_StaysSeen(K) ==
  /\ PollDue(K)
  /\ NewResults # {}
  /\ seen' = K
  /\ Forget((seen \cup Noticed) \ K)
  /\ DropStale
  /\ \E M \in SUBSET (NewResults \ StillWritten) : \E W \in SUBSET M :
       /\ AddLines(W)
       /\ written' = StillWritten \cup M
       /\ torn' = torn \cup (M \ W)
  /\ UNCHANGED <<taskVars, tombs, phase, batch, cooling, restarts, wakes>>

(* The append fails.  The file is buffered: the lines M were marked as     *)
(* written, and only the lines W of them have reached the file.            *)
PollCannotWrite(K) ==
  /\ PollDue(K)
  /\ NewResults # {}
  /\ seen' = K \ NewResults
  /\ Forget((seen \cup Noticed) \ K)
  /\ DropStale
  /\ \E M \in SUBSET (NewResults \ StillWritten) : \E W \in SUBSET M :
       /\ AddLines(W)
       /\ written' = StillWritten \cup M
       /\ torn' = torn \cup (M \ W)
  /\ UNCHANGED <<taskVars, tombs, phase, batch, cooling, restarts, wakes>>

(* Nothing to deliver: the bookkeeping of the poll only.                   *)
PollFindsNone(K) ==
  /\ PollDue(K)
  /\ NewResults = {}
  /\ seen' = K
  /\ Forget((seen \cup Noticed) \ K)
  /\ DropStale
  /\ written' = StillWritten
  /\ UNCHANGED <<taskVars, tombs, phase, batch, cooling, file, restarts, wakes,
                 torn>>

-----------------------------------------------------------------------------
(* The wake.                                                               *)

(* The results of the batch whose wake is to be tried again.               *)
Again(outcome) == {d \in batch : outcome = "retry" /\ retries[d] + 1 < MaxWakes}

CountRetry(outcome) ==
  retries' = [d \in Delegation |-> IF d \in Again(outcome) THEN retries[d] + 1
                                   ELSE IF d \in batch THEN 0 ELSE retries[d]]

(* _commit_harvested: only for a wake that was delivered or dropped.       *)
Commit(outcome) ==
  tombs' = IF outcome \in {"delivered", "dropped"} THEN tombs \cup batch
                                                    ELSE tombs

(* What follows the wake, whatever became of it.                           *)
Settle(outcome) ==
  /\ Commit(outcome)
  /\ CountRetry(outcome)
  /\ seen' = seen \ Again(outcome)
  /\ written' = written \ (batch \ Again(outcome))
  /\ phase' = "idle"
  /\ batch' = {}
  /\ UNCHANGED <<taskVars, file, restarts, ghosts>>

(* The breaker of the autonomous loop is open: no wake.                    *)
DropWake ==
  /\ phase = "resolving"
  /\ Settle("dropped")
  /\ UNCHANGED cooling

(* The self-message is posted, and the cooldown begins.                    *)
SendWake ==
  /\ phase = "resolving"
  /\ phase' = "waking"
  /\ cooling' = TRUE
  /\ wakes' = [d \in Delegation |-> wakes[d] + IF d \in batch THEN 1 ELSE 0]
  /\ UNCHANGED <<taskVars, seen, written, retries, tombs, batch, file, restarts,
                 evictions, forgotten, torn>>

(* A 2xx, a wake that surely did not get through, or nobody knows.         *)
WakeEnds(outcome) ==
  /\ phase = "waking"
  /\ Settle(outcome)
  /\ UNCHANGED cooling

CooldownEnds ==
  /\ cooling
  /\ cooling' = FALSE
  /\ UNCHANGED <<taskVars, seen, written, retries, tombs, phase, batch, file,
                 restarts, ghosts>>

(* The workspace is restarted, at any point.                               *)
Restart ==
  /\ restarts < MaxRestarts
  /\ restarts' = restarts + 1
  /\ task' = [d \in Delegation |-> IF task[d] = "none" THEN "none" ELSE "lost"]
  /\ order' = <<>>
  /\ tracked' = {}
  /\ seen' = {} /\ written' = {} /\ batch' = {}
  /\ retries' = [d \in Delegation |-> 0]
  /\ phase' = "idle"
  /\ cooling' = FALSE
  /\ UNCHANGED <<row, tombs, file, ghosts>>

-----------------------------------------------------------------------------
(* The poll of one round of the loop, when the platform answers it.        *)
Polls == \E K \in SUBSET Delegation :
           PollFinds(K) \/ PollCannotWrite(K) \/ PollFindsNone(K)

Wakes == \/ DropWake \/ SendWake
         \/ \E outcome \in {"delivered", "retry", "unknown"} : WakeEnds(outcome)

Next ==
  \/ \E d \in Delegation :
       \/ Delegate(d) \/ FailsEarly(d) \/ Settles(d) \/ Queues(d) \/ Mirrors(d)
       \/ PlatformFinishes(d) \/ Refresh(d) \/ LeavesListing(d)
  \/ Polls \/ Wakes \/ CooldownEnds \/ Restart

(* The loop goes round every interval, an HTTP call has a timeout and the  *)
(* cooldown is a time; the append succeeds when it is tried long enough.   *)
Fairness ==
  /\ WF_vars(\E K \in SUBSET Delegation : PollFinds(K) \/ PollFindsNone(K))
  /\ WF_vars(Wakes)
  /\ WF_vars(CooldownEnds)

Spec == Init /\ [][Next]_vars /\ Fairness

-----------------------------------------------------------------------------
(* Properties.                                                             *)

(* A result is written for the agent at most once, over retries of its     *)
(* wake, failed writes and restarts, as long as its id is remembered.      *)
LineOnce == \A d \in Delegation \ forgotten : file[d] <= 1

(* A tombstone, which suppresses a result for good, is only committed for  *)
(* one whose line is in the file, unless the file system lost the line.    *)
TombstoneHasLine == \A d \in tombs \ torn : file[d] >= 1

(* A result that cannot be announced does not wake the agent for ever: the *)
(* attempts are counted over the batches it travels in.                    *)
WakeBudget == \A d \in Delegation \ forgotten : wakes[d] <= MaxWakes

(* What was delivered once is over: it is never written nor announced      *)
(* again, also when its id has been forgotten and after a restart.         *)
DeliveredIsFinal ==
  [][\A d \in tombs : file'[d] = file[d] /\ wakes'[d] = wakes[d]]_vars

(* A result is delivered once: one line, a tombstone for it and nothing    *)
(* else, a bounded number of wakes, and then nothing more.                 *)
DeliveredOnce ==
  [](LineOnce /\ TombstoneHasLine /\ WakeBudget) /\ DeliveredIsFinal

(* delegation_results_waiting(), which makes the idle loop skip.           *)
ResultsWaiting == phase = "waking" \/ \E d \in Delegation : retries[d] > 0

(* The idle loop is not held up for ever, whatever becomes of the wakes    *)
(* and of the rows they were about (or the bound on evictions is met).     *)
WaitingEnds == ResultsWaiting ~> ~ResultsWaiting \/ evictions = MaxEvictions

(* The awaited delegations whose outcome is listed and not in the file.    *)
Owed == {d \in tracked \ torn : row[d] = "finished" /\ file[d] = 0}

(* The outcome of an awaited delegation that the platform lists reaches    *)
(* the file, unless it leaves the list, the history or the process (or     *)
(* the bound is met).                                                      *)
FinishedIsWritten == Owed # {} ~> Owed = {} \/ evictions = MaxEvictions

(* The harvest comes through: neither the agent nor a result waits for it  *)
(* for ever.                                                               *)
HarvestGoesOn == WaitingEnds /\ FinishedIsWritten
=============================================================================
