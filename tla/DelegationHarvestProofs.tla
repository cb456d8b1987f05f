------------------------ MODULE DelegationHarvestProofs ------------------------
(***************************************************************************)
(* Proofs of the safety properties of DelegationHarvest for any set of     *)
(* delegations and any limits.                                             *)
(***************************************************************************)
EXTENDS DelegationHarvest, TLAPS

(***************************************************************************)
(* The inductive invariant.                                                *)
(***************************************************************************)

(* A delegation that was not started has left no trace.                    *)
Unstarted ==
  \A d \in Delegation : task[d] = "none" =>
     /\ d \notin tracked /\ d \notin batch
     /\ file[d] = 0 /\ wakes[d] = 0

(* The platform knows no outcome before the agent reported one, or it took *)
(* over a queued request itself.                                           *)
RowsOpen ==
  \A d \in Delegation :
     task[d] \in {"none", "running", "mirroring"} => row[d] = "open"

(* What is being announced is marked as seen (or was forgotten) and as     *)
(* written, was not delivered before and has a finished row.               *)
BatchMarked ==
  /\ phase = "idle" => batch = {}
  /\ batch \subseteq seen \cup forgotten
  /\ batch \subseteq written
  /\ batch \cap tombs = {}
  /\ \A d \in batch : row[d] # "open"

(* What is to be announced again has a finished row and a written line.    *)
RetriesMarked ==
  \A d \in Delegation : retries[d] > 0 => d \in written /\ row[d] # "open"

(* A poll will not notice d, now or later.                                 *)
Closed(d) == d \in seen \/ d \notin tracked \/ row[d] = "gone"

(* A line is not repeated: whoever has one is marked as written or closed. *)
LinesMarked ==
  \A d \in Delegation \ forgotten :
     /\ file[d] <= 1
     /\ file[d] = 1 => row[d] # "open" /\ (d \in written \/ Closed(d))

(* The attempts counted are the wakes that were sent.                      *)
WakesCounted ==
  \A d \in Delegation \ forgotten :
     IF d \in batch /\ phase = "waking"
     THEN wakes[d] = retries[d] + 1
     ELSE \/ wakes[d] = retries[d]
          \/ wakes[d] <= MaxWakes /\ Closed(d) /\ d \notin batch

(* What is marked as written, or buried, has its line.                     *)
MarksHaveLine == \A d \in (written \cup tombs) \ torn : file[d] >= 1

IInv == /\ TypeOK /\ Unstarted /\ RowsOpen /\ BatchMarked /\ RetriesMarked
        /\ LinesMarked /\ WakesCounted /\ MarksHaveLine

-----------------------------------------------------------------------------
(* What the poll computes.                                                 *)

(* Eviction only removes ids.                                              *)
LEMMA KeptIsSubset ==
  ASSUME NEW S, NEW K \in Kept(S)
  PROVE  K \subseteq S
  BY DEF Kept

(* What a poll relies on: it starts with an empty batch, harvests rows it  *)
(* had not noticed, and loses no id it does not forget.                    *)
LEMMA PollFacts ==
  ASSUME TypeOK, BatchMarked, NEW K, PollDue(K), Forget((seen \cup Noticed) \ K)
  PROVE  /\ batch = {}
         /\ NewResults \in SUBSET tracked
         /\ NewResults \subseteq Noticed
         /\ NewResults \cap seen = {} /\ NewResults \cap tombs = {}
         /\ \A d \in NewResults : row[d] = "finished"
         /\ StillWritten \subseteq written
         /\ \A d \in written \cap NewResults : d \in StillWritten
         /\ K \subseteq seen \cup Noticed
         /\ forgotten \subseteq forgotten'
         /\ \A d \in seen \cup Noticed : d \in K \/ d \in forgotten'
  BY KeptIsSubset
     DEF TypeOK, BatchMarked, PollDue, NewResults, Noticed, StillWritten, Forget

(* A retry the poll did not harvest again is closed after it.              *)
LEMMA StaleIsClosed ==
  ASSUME TypeOK, RetriesMarked, NEW d \in Delegation,
         retries[d] > 0, d \notin NewResults
  PROVE  Closed(d) \/ d \in Noticed
  BY DEF TypeOK, RetriesMarked, Closed, NewResults, Noticed, Row

-----------------------------------------------------------------------------
(* Types.                                                                  *)
LEMMA TypeInit == Init => TypeOK
  <1> SUFFICES ASSUME Init PROVE TypeOK
    OBVIOUS
  <1>1. /\ task \in [Delegation -> Task] /\ row \in [Delegation -> Row]
        /\ order \in Seq(Delegation)
    BY DEF Init, Task, Row
  <1>2. /\ file \in [Delegation -> Nat] /\ wakes \in [Delegation -> Nat]
        /\ retries \in [Delegation -> 0..(MaxWakes - 1)]
        /\ restarts \in 0..MaxRestarts /\ evictions \in 0..MaxEvictions
    BY HarvestAssumption DEF Init
  <1>3. /\ tracked \in SUBSET Delegation /\ seen \in SUBSET Delegation
        /\ written \in SUBSET Delegation /\ tombs \in SUBSET Delegation
        /\ batch \in SUBSET Delegation /\ forgotten \in SUBSET Delegation
        /\ torn \in SUBSET Delegation
    BY HarvestAssumption DEF Init
  <1> QED
    BY <1>1, <1>2, <1>3 DEF Init, TypeOK

(* The bookkeeping of a poll keeps its types.                              *)
LEMMA PollTypes ==
  ASSUME TypeOK, NEW K \in SUBSET Delegation, PollDue(K), DropStale,
         Forget((seen \cup Noticed) \ K)
  PROVE  /\ retries' \in [Delegation -> 0..(MaxWakes - 1)]
         /\ forgotten' \in SUBSET Delegation
         /\ evictions' \in 0..MaxEvictions
         /\ NewResults \in SUBSET Delegation
         /\ StillWritten \in SUBSET Delegation
  <1> USE HarvestAssumption
  <1>1. retries' \in [Delegation -> 0..(MaxWakes - 1)]
    BY DEF TypeOK, DropStale
  <1>2. Noticed \in SUBSET Delegation
    BY DEF TypeOK, Noticed
  <1>3. /\ NewResults \in SUBSET Delegation
        /\ StillWritten \in SUBSET Delegation
    BY <1>2 DEF TypeOK, NewResults, StillWritten
  <1>4. forgotten' \in SUBSET Delegation
    BY <1>2 DEF TypeOK, Forget
  <1>5. CASE (seen \cup Noticed) \ K = {}
    BY <1>1, <1>3, <1>4, <1>5 DEF TypeOK, Forget
  <1>6. CASE (seen \cup Noticed) \ K # {}
    <2>1. evictions < MaxEvictions
      BY <1>6 DEF PollDue
    <2> QED
      BY <1>1, <1>3, <1>4, <1>6, <2>1 DEF TypeOK, Forget
  <1> QED
    BY <1>5, <1>6

(* Appending lines keeps the type of the file.                             *)
LEMMA AddLinesType ==
  ASSUME TypeOK, NEW W, AddLines(W)
  PROVE  file' \in [Delegation -> Nat]
  BY DEF TypeOK, AddLines

(* The settling of a batch keeps the types.                                *)
LEMMA SettleType ==
  ASSUME TypeOK, NEW outcome, Settle(outcome), cooling' = cooling
  PROVE  TypeOK'
  <1>1. retries' \in [Delegation -> 0..(MaxWakes - 1)]
    BY HarvestAssumption DEF Settle, CountRetry, Again, TypeOK
  <1>2. /\ tombs' \in SUBSET Delegation /\ seen' \in SUBSET Delegation
        /\ written' \in SUBSET Delegation
    BY DEF Settle, Commit, TypeOK
  <1> QED
    BY <1>1, <1>2 DEF Settle, TypeOK, taskVars, ghosts

(* Every step keeps the types.                                             *)
LEMMA TypeStep == TypeOK /\ [Next]_vars => TypeOK'
  <1> SUFFICES ASSUME TypeOK, [Next]_vars PROVE TypeOK'
    OBVIOUS
  <1> USE HarvestAssumption
  <1>1. ASSUME NEW d \in Delegation, Delegate(d) PROVE TypeOK'
    <2>1. order' \in Seq(Delegation)
      BY <1>1 DEF Delegate, TypeOK
    <2>2. tracked' \in SUBSET Delegation
      BY <1>1 DEF Delegate, TypeOK
    <2> QED
      BY <1>1, <2>1, <2>2 DEF Delegate, TypeOK, Task, pollVars, ghosts
  <1>2. ASSUME NEW d \in Delegation,
               FailsEarly(d) \/ Settles(d) \/ Queues(d) \/ Refresh(d)
        PROVE  TypeOK'
    BY <1>2 DEF FailsEarly, Settles, Queues, Refresh, TypeOK, Task, pollVars, ghosts
  <1>3. ASSUME NEW d \in Delegation,
               Mirrors(d) \/ PlatformFinishes(d) \/ LeavesListing(d)
        PROVE  TypeOK'
    BY <1>3 DEF Mirrors, PlatformFinishes, LeavesListing, TypeOK, Task, Row,
                pollVars, ghosts
  <1>4. ASSUME NEW K \in SUBSET Delegation, PollFinds(K) PROVE TypeOK'
    <2>1. PollDue(K) /\ DropStale /\ Forget((seen \cup Noticed) \ K)
      BY <1>4 DEF PollFinds
    <2>2. AddLines(NewResults \ StillWritten)
      BY <1>4 DEF PollFinds
    <2> QED
      BY <1>4, <2>1, <2>2, PollTypes, AddLinesType DEF PollFinds, TypeOK, taskVars
  <1>5. ASSUME NEW K \in SUBSET Delegation, PollCannotWrite(K) PROVE TypeOK'
    <2>1. PollDue(K) /\ DropStale /\ Forget((seen \cup Noticed) \ K)
      BY <1>5 DEF PollCannotWrite
    <2>2. PICK M \in SUBSET (NewResults \ StillWritten), W \in SUBSET Delegation :
               /\ W \subseteq M /\ AddLines(W)
               /\ written' = StillWritten \cup M
               /\ torn' = torn \cup (M \ W)
      BY <1>5, <2>1, PollTypes DEF PollCannotWrite
    <2>3. file' \in [Delegation -> Nat]
      BY <2>2, AddLinesType
    <2>4. /\ seen' \in SUBSET Delegation /\ written' \in SUBSET Delegation
          /\ torn' \in SUBSET Delegation
      BY <1>5, <2>1, <2>2, PollTypes DEF PollCannotWrite, TypeOK
    <2>5. /\ retries' \in [Delegation -> 0..(MaxWakes - 1)]
          /\ forgotten' \in SUBSET Delegation
          /\ evictions' \in 0..MaxEvictions
      BY <2>1, PollTypes
    <2>6. /\ UNCHANGED <<task, order, tracked, row>>
          /\ UNCHANGED <<tombs, phase, batch, cooling, restarts, wakes>>
      BY <1>5 DEF PollCannotWrite, taskVars
    <2> QED
      BY <2>3, <2>4, <2>5, <2>6 DEF TypeOK
  <1>6. ASSUME NEW K \in SUBSET Delegation, PollFindsNone(K) PROVE TypeOK'
    <2>1. PollDue(K) /\ DropStale /\ Forget((seen \cup Noticed) \ K)
      BY <1>6 DEF PollFindsNone
    <2> QED
      BY <1>6, <2>1, PollTypes DEF PollFindsNone, TypeOK, taskVars
  <1>7. CASE DropWake
    BY <1>7, SettleType DEF DropWake
  <1>8. CASE SendWake
    BY <1>8 DEF SendWake, TypeOK, taskVars
  <1>9. ASSUME NEW outcome \in {"delivered", "retry", "unknown"}, WakeEnds(outcome)
        PROVE  TypeOK'
    BY <1>9, SettleType DEF WakeEnds
  <1>10. CASE CooldownEnds
    BY <1>10 DEF CooldownEnds, TypeOK, taskVars, ghosts
  <1>11. CASE Restart
    <2>1. task' \in [Delegation -> Task]
      BY <1>11 DEF Restart, TypeOK, Task
    <2>2. order' \in Seq(Delegation)
      BY <1>11 DEF Restart
    <2>3. /\ retries' \in [Delegation -> 0..(MaxWakes - 1)]
          /\ restarts' \in 0..MaxRestarts
      BY <1>11 DEF Restart, TypeOK
    <2>4. /\ tracked' = {} /\ seen' = {} /\ written' = {} /\ batch' = {}
          /\ phase' = "idle" /\ cooling' = FALSE
          /\ UNCHANGED <<row, tombs, file, evictions, wakes, forgotten, torn>>
      BY <1>11 DEF Restart, ghosts
    <2> QED
      BY <2>1, <2>2, <2>3, <2>4 DEF TypeOK
  <1>12. CASE UNCHANGED vars
    BY <1>12 DEF vars, taskVars, pollVars, ghosts, TypeOK
  <1> QED
    BY <1>1, <1>2, <1>3, <1>4, <1>5, <1>6, <1>7, <1>8, <1>9, <1>10, <1>11, <1>12
       DEF Next, Polls, Wakes

-----------------------------------------------------------------------------
(* The steps of a delegation and of the platform, taken together.          *)
TaskStep(d) == \/ Delegate(d) \/ FailsEarly(d) \/ Settles(d) \/ Queues(d)
               \/ Mirrors(d) \/ PlatformFinishes(d) \/ Refresh(d)
               \/ LeavesListing(d)

(* They leave the poll alone, await only what was never started, and do    *)
(* not take back an outcome.                                               *)
LEMMA TaskEffect ==
  ASSUME TypeOK, RowsOpen, NEW d \in Delegation, TaskStep(d)
  PROVE  /\ UNCHANGED <<pollVars, file, restarts, ghosts>>
         /\ \A e \in Delegation : task[e] # "none" => task'[e] # "none"
         /\ \A e \in tracked' : e \in tracked \/ task[e] = "none"
         /\ \A e \in tracked' \ tracked : task'[e] # "none"
         /\ \A e \in Delegation : row[e] = "gone" => row'[e] = "gone"
         /\ \A e \in Delegation : row[e] # "open" => row'[e] # "open"
  <1>1. CASE Delegate(d)
    BY <1>1 DEF Delegate, TypeOK
  <1>2. CASE FailsEarly(d) \/ Settles(d) \/ Queues(d) \/ Refresh(d)
    BY <1>2 DEF FailsEarly, Settles, Queues, Refresh, TypeOK
  <1>3. CASE Mirrors(d)
    BY <1>3 DEF Mirrors, TypeOK, RowsOpen
  <1>4. CASE PlatformFinishes(d) \/ LeavesListing(d)
    BY <1>4 DEF PlatformFinishes, LeavesListing, TypeOK
  <1> QED
    BY <1>1, <1>2, <1>3, <1>4 DEF TaskStep

(* The row stays open until there is an outcome.                           *)
LEMMA TaskRows ==
  ASSUME TypeOK, RowsOpen, NEW d \in Delegation, TaskStep(d)
  PROVE  RowsOpen'
  BY DEF TaskStep, Delegate, FailsEarly, Settles, Queues, Mirrors,
         PlatformFinishes, Refresh, LeavesListing, TypeOK, RowsOpen

LEMMA TaskKeeps ==
  ASSUME IInv, NEW d \in Delegation, TaskStep(d), TypeOK'
  PROVE  IInv'
  <1> USE DEF IInv
  <1>0. /\ UNCHANGED <<seen, written, retries, tombs, phase, batch, file, wakes,
                       forgotten, torn>>
        /\ \A e \in Delegation : task[e] # "none" => task'[e] # "none"
        /\ \A e \in tracked' : e \in tracked \/ task[e] = "none"
        /\ \A e \in tracked' \ tracked : task'[e] # "none"
        /\ \A e \in Delegation : row[e] = "gone" => row'[e] = "gone"
        /\ \A e \in Delegation : row[e] # "open" => row'[e] # "open"
    BY TaskEffect DEF pollVars, ghosts
  <1>1. Unstarted'
    BY <1>0 DEF Unstarted, TypeOK
  <1>2. RowsOpen'
    BY TaskRows
  <1>3. BatchMarked'
    BY <1>0 DEF BatchMarked, TypeOK
  <1>4. RetriesMarked'
    BY <1>0 DEF RetriesMarked, TypeOK
  <1>5. \A e \in Delegation :
           Closed(e) /\ task[e] # "none" => Closed(e)'
    BY <1>0 DEF Closed, TypeOK
  <1>6. LinesMarked'
    BY <1>0, <1>5 DEF LinesMarked, Unstarted, TypeOK
  <1>7. WakesCounted'
    <2> SUFFICES ASSUME NEW e \in Delegation \ forgotten
                 PROVE  IF e \in batch /\ phase = "waking"
                        THEN wakes[e] = retries[e] + 1
                        ELSE \/ wakes[e] = retries[e]
                             \/ wakes[e] <= MaxWakes /\ Closed(e)' /\ e \notin batch
      BY <1>0 DEF WakesCounted
    <2>1. CASE task[e] = "none"
      BY <2>1 DEF Unstarted, RowsOpen, RetriesMarked, TypeOK
    <2>2. CASE task[e] # "none"
      BY <2>2, <1>5 DEF WakesCounted
    <2> QED
      BY <2>1, <2>2
  <1>8. MarksHaveLine'
    BY <1>0 DEF MarksHaveLine
  <1> QED
    BY <1>1, <1>2, <1>3, <1>4, <1>6, <1>7, <1>8

-----------------------------------------------------------------------------
(* A poll.  W are the lines it appends, M the ids it marks as written for  *)
(* them, S the ids it leaves seen: the three outcomes of a poll differ in  *)
(* these.                                                                  *)
PollStep(K, M, W, S) ==
  /\ PollDue(K)
  /\ Forget((seen \cup Noticed) \ K)
  /\ DropStale
  /\ M \subseteq NewResults /\ W \subseteq M \ StillWritten
  /\ AddLines(W)
  /\ written' = StillWritten \cup M
  /\ seen' = S
  /\ K \ NewResults \subseteq S /\ S \subseteq K
  /\ torn' = torn \cup (M \ (W \cup StillWritten))
  /\ UNCHANGED <<task, order, tracked, row, tombs, cooling, restarts, wakes>>

(* What such a poll keeps besides the state of the batch.                  *)
LEMMA PollKeeps ==
  ASSUME IInv, NEW K, NEW M, NEW W, NEW S, PollStep(K, M, W, S), TypeOK',
         \/ phase' = "resolving" /\ batch' = NewResults /\ M = NewResults /\ S = K
         \/ phase' = "idle" /\ batch' = {}
  PROVE  IInv'
  <1> USE DEF IInv
  <1>0. /\ PollDue(K) /\ DropStale /\ phase = "idle"
        /\ UNCHANGED <<task, tracked, row, tombs, wakes>>
        /\ batch = {}
        /\ NewResults \in SUBSET tracked
        /\ NewResults \subseteq Noticed
        /\ NewResults \cap seen = {} /\ NewResults \cap tombs = {}
        /\ \A d \in NewResults : row[d] = "finished"
        /\ StillWritten \subseteq written
        /\ \A d \in written \cap NewResults : d \in StillWritten
        /\ forgotten \subseteq forgotten'
        /\ \A d \in seen \cup Noticed : d \in K \/ d \in forgotten'
    BY PollFacts DEF PollStep, PollDue
  <1>1. /\ M \subseteq NewResults /\ W \subseteq M
        /\ W \cap StillWritten = {} /\ W \cap written = {}
        /\ written' = StillWritten \cup M
        /\ torn' = torn \cup (M \ (W \cup StillWritten))
        /\ \A d \in Delegation : file'[d] = file[d] + IF d \in W THEN 1 ELSE 0
        /\ \A d \in Delegation :
              retries'[d] = IF d \in NewResults THEN retries[d] ELSE 0
    BY <1>0 DEF PollStep, AddLines, DropStale
  <1>2. \A d \in seen \cup (Noticed \ NewResults) : d \in seen' \/ d \in forgotten'
    BY <1>0 DEF PollStep
  <1>3. /\ batch' \subseteq NewResults
        /\ batch' \subseteq seen' \cup forgotten'
        /\ batch' \subseteq written'
        /\ phase' = "idle" => batch' = {}
        /\ phase' # "waking"
    BY <1>0, <1>1 DEF PollStep
  <1>4. /\ NewResults \subseteq Delegation
        /\ \A d \in Delegation : file[d] \in Nat /\ wakes[d] \in Nat
                                 /\ retries[d] \in 0..(MaxWakes - 1)
    BY <1>0 DEF TypeOK
  <1>5. ASSUME NEW d \in Delegation \ forgotten', Closed(d)
        PROVE  Closed(d)' /\ d \notin NewResults
    BY <1>0, <1>2, <1>5 DEF Closed
  <1>6. ASSUME NEW d \in Delegation \ forgotten',
               retries[d] > 0, d \notin NewResults
        PROVE  Closed(d)'
    <2>1. CASE Closed(d)
      BY <2>1, <1>5
    <2>2. CASE d \in Noticed
      BY <2>2, <1>2, <1>6 DEF Closed
    <2> QED
      BY <1>6, <2>1, <2>2, StaleIsClosed
  <1>7. Unstarted'
    <2> SUFFICES ASSUME NEW d \in Delegation, task[d] = "none"
                 PROVE  /\ d \notin tracked /\ d \notin batch'
                        /\ file'[d] = 0 /\ wakes[d] = 0
      BY <1>0 DEF Unstarted
    <2>1. d \notin tracked /\ file[d] = 0 /\ wakes[d] = 0
      BY DEF Unstarted
    <2> QED
      BY <2>1, <1>0, <1>1, <1>3
  <1>8. RowsOpen'
    BY <1>0 DEF RowsOpen
  <1>9. BatchMarked'
    BY <1>0, <1>3 DEF BatchMarked
  <1>10. RetriesMarked'
    <2> SUFFICES ASSUME NEW d \in Delegation, retries'[d] > 0
                 PROVE  d \in written' /\ row[d] # "open"
      BY <1>0 DEF RetriesMarked
    <2>1. d \in NewResults /\ retries[d] > 0
      BY <1>1
    <2> QED
      BY <2>1, <1>0, <1>1 DEF RetriesMarked
  <1>11. LinesMarked'
    <2> SUFFICES ASSUME NEW d \in Delegation \ forgotten'
                 PROVE  /\ file'[d] <= 1
                        /\ file'[d] = 1 =>
                             row[d] # "open" /\ (d \in written' \/ Closed(d)')
      BY <1>0 DEF LinesMarked
    <2>1. d \in Delegation \ forgotten
      BY <1>0
    <2>2. /\ file[d] <= 1
          /\ file[d] = 1 => row[d] # "open" /\ (d \in written \/ Closed(d))
      BY <2>1 DEF LinesMarked
    <2>3. CASE d \in W
      <3>1. d \in NewResults /\ d \notin written /\ d \in written'
        BY <2>3, <1>1
      <3>2. ~Closed(d)
        BY <3>1, <1>5
      <3>3. file[d] = 0 /\ file'[d] = 1
        BY <2>2, <2>3, <3>1, <3>2, <1>1, <1>4
      <3> QED
        BY <3>1, <3>3, <1>0
    <2>4. CASE d \notin W
      <3>1. file'[d] = file[d]
        BY <2>4, <1>1, <1>4
      <3> SUFFICES ASSUME file[d] = 1
                   PROVE  d \in written' \/ Closed(d)'
        BY <2>2, <3>1
      <3>2. CASE Closed(d)
        BY <3>2, <1>5
      <3>3. CASE d \in written /\ d \in StillWritten
        BY <3>3, <1>1
      <3>4. CASE d \in written /\ d \notin StillWritten
        <4>1. retries[d] > 0 /\ d \notin NewResults
          BY <3>4, <1>4 DEF StillWritten
        <4> QED
          BY <4>1, <1>6
      <3> QED
        BY <2>2, <3>2, <3>3, <3>4
    <2> QED
      BY <2>3, <2>4
  <1>12. WakesCounted'
    <2> SUFFICES ASSUME NEW d \in Delegation \ forgotten'
                 PROVE  \/ wakes[d] = retries'[d]
                        \/ wakes[d] <= MaxWakes /\ Closed(d)' /\ d \notin batch'
      BY <1>0, <1>3 DEF WakesCounted
    <2>1. \/ wakes[d] = retries[d]
          \/ wakes[d] <= MaxWakes /\ Closed(d)
      BY <1>0 DEF WakesCounted
    <2>2. CASE Closed(d) /\ wakes[d] <= MaxWakes
      BY <2>2, <1>5, <1>3
    <2>3. CASE wakes[d] = retries[d] /\ d \in NewResults
      BY <2>3, <1>1
    <2>4. CASE wakes[d] = retries[d] /\ d \notin NewResults /\ retries[d] = 0
      BY <2>4, <1>1
    <2>5. CASE wakes[d] = retries[d] /\ d \notin NewResults /\ retries[d] > 0
      <3>1. Closed(d)'
        BY <2>5, <1>6
      <3>2. wakes[d] <= MaxWakes
        BY <2>5, <1>4, HarvestAssumption
      <3> QED
        BY <2>5, <3>1, <3>2, <1>3
    <2> QED
      BY <2>1, <2>2, <2>3, <2>4, <2>5, <1>4
  <1>13. MarksHaveLine'
    <2> SUFFICES ASSUME NEW d \in (written' \cup tombs) \ torn'
                 PROVE  file'[d] >= 1
      BY <1>0 DEF MarksHaveLine
    <2>1. d \in Delegation
      BY <1>0, <1>1 DEF TypeOK
    <2>2. CASE d \in W
      BY <2>1, <2>2, <1>1, <1>4
    <2>3. CASE d \notin W
      <3>1. d \in (written \cup tombs) \ torn
        BY <2>3, <1>0, <1>1
      <3>2. file[d] >= 1
        BY <3>1 DEF MarksHaveLine
      <3> QED
        BY <2>1, <2>3, <3>2, <1>1, <1>4
    <2> QED
      BY <2>2, <2>3
  <1> QED
    BY <1>7, <1>8, <1>9, <1>10, <1>11, <1>12, <1>13

(* The three outcomes of a poll are such steps.                            *)
LEMMA PollsKeep ==
  ASSUME IInv, Polls, TypeOK'
  PROVE  IInv'
  <1>1. PICK K \in SUBSET Delegation :
           PollFinds(K) \/ PollCannotWrite(K) \/ PollFindsNone(K)
    BY DEF Polls
  <1>2. CASE PollFinds(K)
    <2>1. PollStep(K, NewResults, NewResults \ StillWritten, K)
      BY <1>2 DEF PollFinds, PollStep, taskVars
    <2>2. phase' = "resolving" /\ batch' = NewResults
      BY <1>2 DEF PollFinds
    <2> QED
      BY <2>1, <2>2, PollKeeps
  <1>3. CASE PollCannotWrite(K)
    <2>1. PICK M \in SUBSET (NewResults \ StillWritten) : \E W \in SUBSET M :
             /\ AddLines(W)
             /\ written' = StillWritten \cup M
             /\ torn' = torn \cup (M \ W)
      BY <1>3 DEF PollCannotWrite
    <2>2. PICK W \in SUBSET M :
             /\ AddLines(W)
             /\ written' = StillWritten \cup M
             /\ torn' = torn \cup (M \ W)
      BY <2>1
    <2>3. PollDue(K) /\ batch = {} /\ phase = "idle"
      BY <1>3 DEF PollCannotWrite, PollDue, IInv, BatchMarked
    <2>4. PollStep(K, M, W, K \ NewResults)
      BY <1>3, <2>2 DEF PollCannotWrite, PollStep, taskVars
    <2>5. phase' = "idle" /\ batch' = {}
      BY <1>3, <2>3 DEF PollCannotWrite
    <2> QED
      BY <2>4, <2>5, PollKeeps
  <1>4. CASE PollFindsNone(K)
    <2>1. PollDue(K) /\ batch = {} /\ phase = "idle" /\ NewResults = {}
      BY <1>4 DEF PollFindsNone, PollDue, IInv, BatchMarked
    <2>2. AddLines({})
      BY <1>4 DEF PollFindsNone, AddLines, IInv, TypeOK
    <2>3. PollStep(K, {}, {}, K)
      BY <1>4, <2>1, <2>2 DEF PollFindsNone, PollStep, taskVars
    <2>4. phase' = "idle" /\ batch' = {}
      BY <1>4, <2>1 DEF PollFindsNone
    <2> QED
      BY <2>3, <2>4, PollKeeps
  <1> QED
    BY <1>1, <1>2, <1>3, <1>4

-----------------------------------------------------------------------------
(* The end of a batch, however it comes, turns its marks as written into   *)
(* tombstones, retries or seen ids.                                        *)
LEMMA SettleKeeps ==
  ASSUME IInv, NEW outcome, Settle(outcome), TypeOK',
         \/ phase = "resolving" /\ outcome = "dropped"
         \/ phase = "waking"
  PROVE  IInv'
  <1> USE DEF IInv
  <1>0. /\ UNCHANGED <<task, tracked, row, file, wakes, forgotten, torn>>
        /\ phase' = "idle" /\ batch' = {}
        /\ seen' = seen \ Again(outcome)
        /\ written' = written \ (batch \ Again(outcome))
        /\ tombs \subseteq tombs' /\ tombs' \subseteq tombs \cup batch
        /\ Again(outcome) \subseteq batch
    BY DEF Settle, Commit, Again, taskVars, ghosts
  <1>1. \A d \in Delegation :
           retries'[d] = IF d \in Again(outcome) THEN retries[d] + 1
                         ELSE IF d \in batch THEN 0 ELSE retries[d]
    BY DEF Settle, CountRetry
  <1>2. /\ batch \subseteq written /\ batch \subseteq seen \cup forgotten
        /\ \A d \in batch : row[d] # "open"
    BY DEF BatchMarked
  <1>3. \A d \in Delegation : wakes[d] \in Nat /\ retries[d] \in 0..(MaxWakes - 1)
    BY DEF TypeOK
  <1>4. \A d \in Delegation \ Again(outcome) : Closed(d) => Closed(d)'
    BY <1>0 DEF Closed
  <1>5. Unstarted' /\ RowsOpen' /\ BatchMarked'
    BY <1>0 DEF Unstarted, RowsOpen, BatchMarked
  <1>6. RetriesMarked'
    BY <1>0, <1>1, <1>2, <1>3 DEF RetriesMarked
  <1>7. LinesMarked'
    BY <1>0, <1>2, <1>4 DEF LinesMarked, Closed
  <1>8. WakesCounted'
    <2> SUFFICES ASSUME NEW d \in Delegation \ forgotten
                 PROVE  \/ wakes[d] = retries'[d]
                        \/ wakes[d] <= MaxWakes /\ Closed(d)'
      BY <1>0 DEF WakesCounted
    <2>1. CASE d \notin batch
      BY <2>1, <1>0, <1>1, <1>4 DEF WakesCounted
    <2>2. CASE d \in Again(outcome)
      <3>1. phase = "waking"
        BY <2>2 DEF Again
      <3> QED
        BY <2>2, <3>1, <1>0, <1>1 DEF WakesCounted
    <2>3. CASE d \in batch \ Again(outcome)
      <3>1. Closed(d)'
        BY <2>3, <1>0, <1>2 DEF Closed
      <3>2. wakes[d] <= MaxWakes
        BY <2>3, <1>3, HarvestAssumption DEF WakesCounted
      <3> QED
        BY <3>1, <3>2
    <2> QED
      BY <2>1, <2>2, <2>3
  <1>9. MarksHaveLine'
    BY <1>0, <1>2 DEF MarksHaveLine
  <1> QED
    BY <1>5, <1>6, <1>7, <1>8, <1>9

(* Sending a wake counts one for each result of the batch.                 *)
LEMMA SendKeeps ==
  ASSUME IInv, SendWake, TypeOK'
  PROVE  IInv'
  <1> USE DEF IInv
  <1>0. /\ UNCHANGED <<task, tracked, row, seen, written, retries, tombs, batch,
                       file, forgotten, torn>>
        /\ phase = "resolving" /\ phase' = "waking"
        /\ \A d \in Delegation : wakes'[d] = wakes[d] + IF d \in batch THEN 1 ELSE 0
        /\ \A d \in Delegation : wakes[d] \in Nat
    BY DEF SendWake, taskVars, TypeOK
  <1>1. Unstarted' /\ RowsOpen' /\ BatchMarked' /\ RetriesMarked'
    BY <1>0 DEF Unstarted, RowsOpen, BatchMarked, RetriesMarked
  <1>2. LinesMarked' /\ MarksHaveLine'
    BY <1>0 DEF LinesMarked, MarksHaveLine, Closed
  <1>3. WakesCounted'
    BY <1>0 DEF WakesCounted, Closed
  <1> QED
    BY <1>1, <1>2, <1>3

(* A restart forgets what is in memory; what it awaited stays closed.      *)
LEMMA RestartKeeps ==
  ASSUME IInv, Restart, TypeOK'
  PROVE  IInv'
  <1> USE DEF IInv
  <1>0. /\ tracked' = {} /\ seen' = {} /\ written' = {} /\ batch' = {}
        /\ phase' = "idle"
        /\ UNCHANGED <<row, tombs, file, wakes, forgotten, torn>>
        /\ \A d \in Delegation : retries'[d] = 0
        /\ \A d \in Delegation :
              task'[d] = IF task[d] = "none" THEN "none" ELSE "lost"
    BY DEF Restart, ghosts
  <1>1. Unstarted' /\ RowsOpen' /\ BatchMarked' /\ RetriesMarked'
    BY <1>0 DEF Unstarted, RowsOpen, BatchMarked, RetriesMarked
  <1>2. \A d \in Delegation : Closed(d)'
    BY <1>0 DEF Closed
  <1>3. LinesMarked' /\ MarksHaveLine'
    BY <1>0, <1>2 DEF LinesMarked, MarksHaveLine
  <1>4. \A d \in Delegation \ forgotten : wakes[d] <= MaxWakes
    BY HarvestAssumption DEF WakesCounted, TypeOK
  <1>5. WakesCounted'
    BY <1>0, <1>2, <1>4 DEF WakesCounted
  <1> QED
    BY <1>1, <1>3, <1>5

-----------------------------------------------------------------------------
LEMMA IInvInit == Init => IInv
  <1> SUFFICES ASSUME Init PROVE IInv
    OBVIOUS
  <1> USE HarvestAssumption
  <1>1. TypeOK
    BY TypeInit
  <1>2. Unstarted /\ RowsOpen /\ BatchMarked /\ RetriesMarked
    BY DEF Init, Unstarted, RowsOpen, BatchMarked, RetriesMarked
  <1>3. LinesMarked /\ WakesCounted /\ MarksHaveLine
    BY DEF Init, LinesMarked, WakesCounted, MarksHaveLine, Closed
  <1> QED
    BY <1>1, <1>2, <1>3 DEF IInv

LEMMA IInvStep == IInv /\ [Next]_vars => IInv'
  <1> SUFFICES ASSUME IInv, [Next]_vars PROVE IInv'
    OBVIOUS
  <1>0. TypeOK'
    BY TypeStep DEF IInv
  <1>1. ASSUME NEW d \in Delegation, TaskStep(d) PROVE IInv'
    BY <1>0, <1>1, TaskKeeps
  <1>2. CASE Polls
    BY <1>0, <1>2, PollsKeep
  <1>3. CASE DropWake
    BY <1>0, <1>3, SettleKeeps DEF DropWake
  <1>4. CASE SendWake
    BY <1>0, <1>4, SendKeeps
  <1>5. ASSUME NEW outcome, WakeEnds(outcome) PROVE IInv'
    BY <1>0, <1>5, SettleKeeps DEF WakeEnds
  <1>6. CASE CooldownEnds \/ UNCHANGED vars
    <2>1. UNCHANGED <<taskVars, seen, written, retries, tombs, phase, batch, file,
                      ghosts>>
      BY <1>6 DEF CooldownEnds, vars, pollVars
    <2> QED
      BY <1>0, <2>1
         DEF IInv, taskVars, ghosts, Unstarted, RowsOpen, BatchMarked, RetriesMarked,
             LinesMarked, WakesCounted, MarksHaveLine, Closed
  <1>7. CASE Restart
    BY <1>0, <1>7, RestartKeeps
  <1> QED
    BY <1>1, <1>2, <1>3, <1>4, <1>5, <1>6, <1>7 DEF Next, Wakes, TaskStep

LEMMA Inductive == Spec => []IInv
  BY IInvInit, IInvStep, PTL DEF Spec

(* The attempts counted, and the limit they are under, bound the wakes.    *)
LEMMA CountedMeansBounded == IInv => WakeBudget
  BY HarvestAssumption DEF IInv, WakesCounted, WakeBudget, TypeOK

(* What has a tombstone is in no batch and in no harvest.                  *)
LEMMA TombsUntouched ==
  IInv /\ [Next]_vars =>
    [\A d \in tombs : file'[d] = file[d] /\ wakes'[d] = wakes[d]]_vars
  <1> SUFFICES ASSUME IInv, Next, NEW d \in tombs
               PROVE  file'[d] = file[d] /\ wakes'[d] = wakes[d]
    OBVIOUS
  <1>0. /\ d \in Delegation /\ d \notin batch /\ d \notin NewResults
        /\ file[d] \in Nat /\ wakes[d] \in Nat
    BY DEF IInv, BatchMarked, TypeOK, NewResults
  <1>1. ASSUME NEW e \in Delegation, TaskStep(e)
        PROVE  UNCHANGED <<file, wakes>>
    BY <1>1, TaskEffect DEF IInv, ghosts
  <1>2. ASSUME NEW W \in SUBSET NewResults, AddLines(W)
        PROVE  file'[d] = file[d]
    BY <1>0, <1>2 DEF AddLines
  <1>3. CASE Polls
    <2>1. wakes' = wakes
      BY <1>3 DEF Polls, PollFinds, PollCannotWrite, PollFindsNone
    <2>2. file' = file \/ \E W \in SUBSET NewResults : AddLines(W)
      BY <1>3 DEF Polls, PollFinds, PollCannotWrite, PollFindsNone
    <2> QED
      BY <2>1, <2>2, <1>2
  <1>4. CASE SendWake
    BY <1>0, <1>4 DEF SendWake
  <1>5. ASSUME NEW outcome, Settle(outcome)
        PROVE  UNCHANGED <<file, wakes>>
    BY <1>5 DEF Settle, ghosts
  <1>6. CASE CooldownEnds \/ Restart
    BY <1>6 DEF CooldownEnds, Restart, ghosts
  <1> QED
    BY <1>1, <1>3, <1>4, <1>5, <1>6 DEF Next, Wakes, DropWake, WakeEnds, TaskStep

-----------------------------------------------------------------------------
(* A retry count stays below the limit of attempts, and all else has the   *)
(* declared type.                                                          *)
THEOREM HarvestTypeCorrect == Spec => []TypeOK
  BY Inductive, PTL DEF IInv

(* Over retries, failed appends and restarts, no result gets a second line *)
(* in the results file while its id is remembered.                         *)
THEOREM LineAtMostOnce == Spec => []LineOnce
  <1>1. IInv => LineOnce
    BY DEF IInv, LinesMarked, LineOnce
  <1> QED
    BY <1>1, Inductive, PTL

(* No tombstone suppresses a result whose line was never appended, but for *)
(* lines the file system lost.                                             *)
THEOREM TombstonesHaveLines == Spec => []TombstoneHasLine
  <1>1. IInv => TombstoneHasLine
    BY DEF IInv, MarksHaveLine, TombstoneHasLine
  <1> QED
    BY <1>1, Inductive, PTL

(* A remembered result wakes the agent MaxWakes times at the most.         *)
THEOREM WakesBounded == Spec => []WakeBudget
  BY CountedMeansBounded, Inductive, PTL

(* A result with a tombstone is never written nor announced again.         *)
THEOREM DeliveredStaysFinal == Spec => DeliveredIsFinal
  BY TombsUntouched, Inductive, PTL DEF Spec, DeliveredIsFinal

(* A result is delivered once: one line, a tombstone for it and nothing    *)
(* else, a bounded number of wakes, and then nothing more.                 *)
THEOREM ResultsDeliveredOnce == Spec => DeliveredOnce
  BY LineAtMostOnce, TombstonesHaveLines, WakesBounded, DeliveredStaysFinal, PTL
     DEF DeliveredOnce
=============================================================================
