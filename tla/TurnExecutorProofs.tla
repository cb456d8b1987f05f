-------------------------- MODULE TurnExecutorProofs --------------------------
(***************************************************************************)
(* Proofs about TurnExecutor for any set of requests and contexts, any     *)
(* queue size and any number of Stops.                                     *)
(***************************************************************************)
EXTENDS TurnExecutor, FiniteSetTheorems, TLAPS

(* What the properties rest on besides each other: a message is nobody's   *)
(* until its task has entered, and holds no result until it has arrived.   *)
Fresh ==
  /\ \A r \in Request : pc[r] \in {"new", "arriving"} => fate[r] = "none"
  /\ \A r \in Request : pc[r] = "new" => held[r] = {}

IInv == TypeOK /\ Fresh /\ OneTurnPerContext /\ WorkHasTurn
               /\ QueuedIsPending /\ OnlyIdleYields /\ ResultGivenOnce

-----------------------------------------------------------------------------
(* The state has the declared types, and no queue outgrows its limit.      *)
LEMMA TypeInit == Init => TypeOK
  BY TurnAssumption DEF Init, TypeOK, PC, LivePC, Fate, Open, Settled, None

(* The end of a pass gives every message a fate.                           *)
LEMMA PassEndsType ==
  ASSUME TypeOK, NEW c \in Context, NEW end \in Fate, NEW next \in Fate
  PROVE  PassEnds(c, end, next) \in [Request -> Fate]
  BY DEF TypeOK, PassEnds, Working

(* The task counter stays a natural number: its floor is zero.             *)
LEMMA TaskCountType ==
  ASSUME TypeOK, NEW b \in BOOLEAN
  PROVE  TaskCount(b) \in Nat
  BY DEF TypeOK, TaskCount

(* Emptying a queue keeps the queues and the events well typed.            *)
LEMMA ConsumeType ==
  ASSUME TypeOK, NEW c \in Context, ConsumePending(c)
  PROVE  /\ pending' \in [Context -> Seq(Request)]
         /\ \A d \in Context : Len(pending'[d]) <= QueueMax
         /\ interrupt' \in [Context -> BOOLEAN]
  <1>1. <<>> \in Seq(Request) /\ Len(<<>>) = 0
    OBVIOUS
  <1>2. 0 <= QueueMax
    BY TurnAssumption
  <1> QED
    BY <1>1, <1>2 DEF ConsumePending, TypeOK

(* Every step of the executor keeps the types.                             *)
LEMMA TypeStep == TypeOK /\ [Next]_vars => TypeOK'
  <1> SUFFICES ASSUME TypeOK, [Next]_vars PROVE TypeOK'
    OBVIOUS
  <1> USE TurnAssumption
  <1>a. /\ {"answered", "streamed", "yielded", "suppressed", "failed",
            "stopped", "cancelled", "queued", "working"} \subseteq Fate
    BY DEF Fate, Open, Settled
  <1>b. \A r \in Request : ctxOf[r] \in Context /\ kindOf[r] \in Kind
    OBVIOUS
  <1>c. \A r \in Request : SourceType(r) \in Kind \cup {None}
    BY DEF SourceType
  <1>d. \A b \in BOOLEAN : TaskCount(b) \in Nat
    BY TaskCountType
  <1>e. \A r \in Request : HasLabel(r) \in BOOLEAN
    BY DEF HasLabel
  <1>f. \A c \in Context : \A end, next \in Fate :
           PassEnds(c, end, next) \in [Request -> Fate]
    BY PassEndsType
  <1>1. ASSUME NEW d \in Result, Harvest(d) PROVE TypeOK'
    BY <1>1 DEF Harvest, TypeOK, entryVars
  <1>2. ASSUME NEW r \in Request, Receive(r) PROVE TypeOK'
    BY <1>2 DEF Receive, TakeResults, TypeOK, entryVars, PC
  <1>3. ASSUME NEW r \in Request, Reject(r) PROVE TypeOK'
    BY <1>3 DEF Reject, TakeResults, TypeOK, entryVars, PC, Fate, Settled
  <1>3a. ASSUME NEW r \in Request, ArrivalCancelled(r) PROVE TypeOK'
    BY <1>3a DEF ArrivalCancelled, TypeOK, entryVars, PC, Fate, Settled
  <1>4. ASSUME NEW r \in Request, EnterTurn(r) PROVE TypeOK'
    BY <1>4, <1>b, <1>c, <1>d, <1>e
       DEF EnterTurn, TypeOK, PC, LivePC, Fate, Open
  <1>5. ASSUME NEW r \in Request, EnterDrop(r) PROVE TypeOK'
    BY <1>5, <1>b DEF EnterDrop, FastPath, TypeOK, PC, Fate, Settled
  <1>6. ASSUME NEW r \in Request, EnterPreempt(r) PROVE TypeOK'
    BY <1>6, <1>b DEF EnterPreempt, FastPath, HasRoom, TypeOK, PC, Fate, Open
  <1>7. ASSUME NEW r \in Request, EnterDefer(r) PROVE TypeOK'
    BY <1>7, <1>b DEF EnterDefer, FastPath, HasRoom, TypeOK, PC, Fate, Open
  <1>8. ASSUME NEW r \in Request, EnterBusy(r) PROVE TypeOK'
    BY <1>8, <1>b DEF EnterBusy, FastPath, TypeOK, PC, Fate, Settled
  <1>9. ASSUME NEW r \in Request, Start(r) PROVE TypeOK'
    BY <1>9 DEF Start, TypeOK, entryVars, PC, LivePC
  <1>10. ASSUME NEW r \in Request, SeeInterrupt(r) PROVE TypeOK'
    BY <1>10 DEF SeeInterrupt, TypeOK, entryVars, PC, LivePC
  <1>11a. ASSUME NEW r \in Request, RunPreempting(r)
         PROVE  ConsumePending(ctxOf[r])
    BY <1>11a DEF RunPreempting
  <1>11b. ASSUME NEW r \in Request, RunPreempting(r)
         PROVE  /\ pending' \in [Context -> Seq(Request)]
                /\ \A d \in Context : Len(pending'[d]) <= QueueMax
                /\ interrupt' \in [Context -> BOOLEAN]
    BY <1>11a, <1>11b, <1>b, ConsumeType
  <1>11. ASSUME NEW r \in Request, RunPreempting(r) PROVE TypeOK'
    BY <1>11, <1>11b, <1>b, <1>a, <1>f DEF RunPreempting, TypeOK, PC, LivePC
  <1>12a. ASSUME NEW r \in Request, StopTurn(r)
         PROVE  ConsumePending(ctxOf[r])
    BY <1>12a DEF StopTurn
  <1>12b. ASSUME NEW r \in Request, StopTurn(r)
         PROVE  /\ pending' \in [Context -> Seq(Request)]
                /\ \A d \in Context : Len(pending'[d]) <= QueueMax
                /\ interrupt' \in [Context -> BOOLEAN]
    BY <1>12a, <1>12b, <1>b, ConsumeType
  <1>12. ASSUME NEW r \in Request, StopTurn(r) PROVE TypeOK'
    BY <1>12, <1>12b, <1>b, <1>a, <1>f DEF StopTurn, TypeOK, PC, LivePC
  <1>13a. ASSUME NEW r \in Request, DrainDeferred(r)
         PROVE  ConsumePending(ctxOf[r])
    BY <1>13a DEF DrainDeferred
  <1>13b. ASSUME NEW r \in Request, DrainDeferred(r)
         PROVE  /\ pending' \in [Context -> Seq(Request)]
                /\ \A d \in Context : Len(pending'[d]) <= QueueMax
                /\ interrupt' \in [Context -> BOOLEAN]
    BY <1>13a, <1>13b, <1>b, ConsumeType
  <1>13. ASSUME NEW r \in Request, DrainDeferred(r) PROVE TypeOK'
    BY <1>13, <1>13b, <1>b, <1>a, <1>f DEF DrainDeferred, TypeOK
  <1>14a. ASSUME NEW r \in Request, StreamEnds(r)
         PROVE  ConsumePending(ctxOf[r])
    BY <1>14a DEF StreamEnds
  <1>14b. ASSUME NEW r \in Request, StreamEnds(r)
         PROVE  /\ pending' \in [Context -> Seq(Request)]
                /\ \A d \in Context : Len(pending'[d]) <= QueueMax
                /\ interrupt' \in [Context -> BOOLEAN]
    BY <1>14a, <1>14b, <1>b, ConsumeType
  <1>14. ASSUME NEW r \in Request, StreamEnds(r) PROVE TypeOK'
    BY <1>14, <1>14b, <1>b DEF StreamEnds, TypeOK, PC, LivePC
  <1>15. ASSUME NEW r \in Request, Publish(r) PROVE TypeOK'
    <2>1. fate' \in [Request -> Fate]
      <3>1. \E end \in {"answered", "suppressed"} :
               fate' = PassEnds(ctxOf[r], end, "queued")
        BY <1>15, Zenon DEF Publish
      <3>2. PICK end \in {"answered", "suppressed"} :
               fate' = PassEnds(ctxOf[r], end, "queued")
        BY <3>1
      <3>3. end \in Fate /\ "queued" \in Fate /\ ctxOf[r] \in Context
        BY <1>a, <1>b
      <3> QED
        BY <3>2, <3>3, <1>f
    <2>2. pc' \in [Request -> PC] /\ active' \in Nat
      BY <1>15, <1>d DEF Publish, TypeOK, PC, LivePC
    <2> QED
      BY <1>15, <2>1, <2>2 DEF Publish, TypeOK, entryVars
  <1>16. ASSUME NEW r \in Request, TurnRaises(r) PROVE TypeOK'
    BY <1>16 DEF TurnRaises, TypeOK, PC, LivePC, entryVars
  <1>17. ASSUME NEW r \in Request, ReportFailure(r) PROVE TypeOK'
    BY <1>17, <1>a, <1>b, <1>d, <1>f
       DEF ReportFailure, TypeOK, PC, LivePC, entryVars
  <1>18. ASSUME NEW r \in Request, Release(r) PROVE TypeOK'
    BY <1>18, <1>b DEF Release, TypeOK, PC
  <1>19. ASSUME NEW r \in Request, TaskCancelled(r) PROVE TypeOK'
    BY <1>19, <1>a, <1>b, <1>d, <1>f
       DEF TaskCancelled, TypeOK, PC, LivePC, entryVars
  <1>20. ASSUME NEW r \in Request, ReleaseCancelled(r) PROVE TypeOK'
    BY <1>20 DEF ReleaseCancelled, TypeOK, PC, entryVars
  <1>21. ASSUME NEW r \in Request, Cancel(r) PROVE TypeOK'
    BY <1>21, <1>b DEF Cancel, TypeOK
  <1>22. CASE UNCHANGED vars
    BY <1>22 DEF vars, entryVars, TypeOK
  <1> QED
    BY <1>1, <1>2, <1>3, <1>3a, <1>4, <1>5, <1>6, <1>7, <1>8, <1>9, <1>10,
       <1>11, <1>12, <1>13, <1>14, <1>15, <1>16, <1>17, <1>18, <1>19, <1>20, <1>21,
       <1>22 DEF Next, Enter, Advance

(* The type invariant of the executor and its inbox entries.               *)
THEOREM TypeCorrect == Spec => []TypeOK
  <1>1. Init => TypeOK
    BY TypeInit
  <1>2. TypeOK /\ [Next]_vars => TypeOK'
    BY TypeStep
  <1> QED
    BY <1>1, <1>2, PTL DEF Spec

-----------------------------------------------------------------------------
(* The safety invariants.                                                  *)

(* With the queue and the fates in step, the end of a pass moves what is   *)
(* in work to one fate, what waits to another, and nothing else.           *)
LEMMA PassEndsAt ==
  ASSUME TypeOK, QueuedIsPending, NEW c \in Context, NEW end, NEW next,
         NEW q \in Request
  PROVE  PassEnds(c, end, next)[q] =
           IF ctxOf[q] = c /\ fate[q] = "working" THEN end
           ELSE IF ctxOf[q] = c /\ fate[q] = "queued" THEN next
           ELSE fate[q]
  <1>1. (\E i \in 1..Len(pending[c]) : pending[c][i] = q)
           <=> ctxOf[q] = c /\ fate[q] = "queued"
    BY DEF QueuedIsPending, Waiting
  <1> QED
    BY <1>1 DEF PassEnds, Working

(* A message still belongs to nobody before its task has entered.          *)
LEMMA FreshStep == IInv /\ Next => Fresh'
  <1> SUFFICES ASSUME IInv, Next PROVE Fresh'
    OBVIOUS
  <1>p. \A r \in Request : ctxOf[r] \in Context
    BY TurnAssumption
  <1>q. \A end, next : \A q \in Request, c \in Context :
           fate[q] = "none" => PassEnds(c, end, next)[q] = "none"
    BY PassEndsAt, Zenon DEF IInv
  <1> USE TurnAssumption DEF IInv, Fresh, TypeOK
  <1>1. CASE \E d \in Result : Harvest(d)
    BY <1>1 DEF Harvest, entryVars
  <1>2. ASSUME NEW r \in Request, Receive(r) \/ Reject(r) \/ ArrivalCancelled(r)
        PROVE  Fresh'
    BY <1>2 DEF Receive, Reject, ArrivalCancelled, TakeResults, entryVars
  <1>3. ASSUME NEW r \in Request, Enter(r) PROVE Fresh'
    <2>1. \E end : fate' = [fate EXCEPT ![r] = end]
      BY <1>3 DEF Enter, EnterTurn, EnterDrop, EnterPreempt, EnterDefer,
                  EnterBusy, FastPath
    <2>2. UNCHANGED held /\ \E to \in {"done", "starting"} :
                              pc' = [pc EXCEPT ![r] = to]
      BY <1>3 DEF Enter, EnterTurn, EnterDrop, EnterPreempt, EnterDefer,
                  EnterBusy, FastPath
    <2> QED
      BY <2>1, <2>2
  <1>4. ASSUME NEW r \in Request,
               Start(r) \/ SeeInterrupt(r) \/ StreamEnds(r) \/ TurnRaises(r)
               \/ Release(r) \/ ReleaseCancelled(r) \/ Cancel(r)
        PROVE  Fresh'
    BY <1>4 DEF Start, SeeInterrupt, StreamEnds, TurnRaises, Release,
                ReleaseCancelled, Cancel, entryVars
  <1>5. ASSUME NEW r \in Request, NEW end, NEW next,
               fate' = PassEnds(ctxOf[r], end, next),
               UNCHANGED held,
               \E to \in LivePC : pc' = [pc EXCEPT ![r] = to]
        PROVE  Fresh'
    <2>1. ASSUME NEW q \in Request, fate[q] = "none"
          PROVE  fate'[q] = "none"
      BY <1>5, <1>p, <1>q, <2>1
    <2>2. PICK to \in LivePC : pc' = [pc EXCEPT ![r] = to]
      BY <1>5
    <2>3. \A q \in Request : pc'[q] \in {"new", "arriving"} => pc'[q] = pc[q]
      BY <2>2 DEF LivePC
    <2> QED
      BY <1>5, <2>1, <2>3
  <1>6. ASSUME NEW r \in Request,
               RunPreempting(r) \/ StopTurn(r) \/ DrainDeferred(r)
               \/ Publish(r) \/ ReportFailure(r) \/ TaskCancelled(r)
        PROVE  Fresh'
    <2>1. CASE RunPreempting(r)
      BY <2>1, <1>5 DEF RunPreempting, LivePC
    <2>2. CASE StopTurn(r)
      BY <2>2, <1>5 DEF StopTurn, LivePC
    <2>3. CASE DrainDeferred(r)
      <3>1. pc' = [pc EXCEPT ![r] = "streaming"]
        BY <2>3 DEF DrainDeferred
      <3> QED
        BY <2>3, <3>1, <1>5 DEF DrainDeferred, LivePC
    <2>4. CASE Publish(r)
      BY <2>4, <1>5 DEF Publish, LivePC
    <2>5. CASE ReportFailure(r)
      BY <2>5, <1>5 DEF ReportFailure, LivePC
    <2>6. CASE TaskCancelled(r)
      BY <2>6, <1>5 DEF TaskCancelled, LivePC
    <2> QED
      BY <1>6, <2>1, <2>2, <2>3, <2>4, <2>5, <2>6
  <1> QED
    BY <1>1, <1>2, <1>3, <1>4, <1>6 DEF Next, Advance

(* One task at a time per conversation, and it owns the slot.              *)
LEMMA OneTurnStep == IInv /\ Next => OneTurnPerContext'
  <1> SUFFICES ASSUME IInv, Next PROVE OneTurnPerContext'
    OBVIOUS
  <1> USE TurnAssumption DEF IInv, OneTurnPerContext, TypeOK, Live, LivePC
  <1>1. CASE \E d \in Result : Harvest(d)
    BY <1>1 DEF Harvest, entryVars
  <1>2. ASSUME NEW r \in Request, Receive(r) \/ Reject(r) \/ ArrivalCancelled(r)
        PROVE  OneTurnPerContext'
    <2>1. \A q \in Request : pc'[q] \in LivePC => pc[q] \in LivePC
      BY <1>2 DEF Receive, Reject, ArrivalCancelled
    <2>2. UNCHANGED inFlight
      BY <1>2 DEF Receive, Reject, ArrivalCancelled, entryVars
    <2> QED
      BY <2>1, <2>2
  <1>3. ASSUME NEW r \in Request, EnterTurn(r) PROVE OneTurnPerContext'
    BY <1>3 DEF EnterTurn
  <1>4. ASSUME NEW r \in Request, NEW end, FastPath(r, end)
        PROVE  OneTurnPerContext'
    BY <1>4 DEF FastPath
  <1>5. ASSUME NEW r \in Request, pc[r] \in LivePC, UNCHANGED inFlight,
               \E to \in LivePC \cup {"done"} : pc' = [pc EXCEPT ![r] = to]
        PROVE  OneTurnPerContext'
    <2>1. \A q \in Request : pc'[q] \in LivePC => pc[q] \in LivePC
      BY <1>5
    <2> QED
      BY <1>5, <2>1
  <1>6. ASSUME NEW r \in Request, Release(r) PROVE OneTurnPerContext'
    BY <1>6 DEF Release
  <1>7. ASSUME NEW r \in Request, Cancel(r) \/ DrainDeferred(r)
        PROVE  OneTurnPerContext'
    BY <1>7 DEF Cancel, DrainDeferred
  <1>8. ASSUME NEW r \in Request, Advance(r) PROVE OneTurnPerContext'
    <2>1. CASE Start(r) \/ SeeInterrupt(r) \/ TurnRaises(r) \/ StreamEnds(r)
      BY <2>1, <1>5 DEF Start, SeeInterrupt, TurnRaises, StreamEnds, entryVars
    <2>2. CASE RunPreempting(r) \/ StopTurn(r) \/ Publish(r)
               \/ ReportFailure(r)
      BY <2>2, <1>5 DEF RunPreempting, StopTurn, Publish, ReportFailure,
                        entryVars
    <2>3. CASE TaskCancelled(r) \/ ReleaseCancelled(r)
      BY <2>3, <1>5 DEF TaskCancelled, ReleaseCancelled, entryVars
    <2> QED
      BY <1>6, <1>7, <1>8, <2>1, <2>2, <2>3 DEF Advance
  <1>9. ASSUME NEW r \in Request, Enter(r) PROVE OneTurnPerContext'
    <2>1. EnterTurn(r) \/ \E end : FastPath(r, end)
      BY <1>9 DEF Enter, EnterDrop, EnterPreempt, EnterDefer, EnterBusy
    <2> QED
      BY <1>3, <1>4, <2>1
  <1> QED
    BY <1>1, <1>2, <1>7, <1>8, <1>9 DEF Next

(* A delegation result is given out once.                                  *)
LEMMA ResultStep == IInv /\ Next => ResultGivenOnce'
  <1> SUFFICES ASSUME IInv, Next PROVE ResultGivenOnce'
    OBVIOUS
  <1> USE DEF IInv, ResultGivenOnce, TypeOK
  <1>1. ASSUME NEW d \in Result, Harvest(d) PROVE ResultGivenOnce'
    BY <1>1 DEF Harvest
  <1>2. ASSUME NEW r \in Request, Receive(r) \/ Reject(r)
        PROVE  ResultGivenOnce'
    <2>1. held' = [held EXCEPT ![r] = resultsFile] /\ resultsFile' = {}
      BY <1>2 DEF Receive, Reject, TakeResults
    <2>2. \A q \in Request : held'[q] = IF q = r THEN resultsFile ELSE held[q]
      BY <2>1
    <2> QED
      BY <2>1, <2>2
  <1>3. ASSUME UNCHANGED <<held, resultsFile>> PROVE ResultGivenOnce'
    BY <1>3
  <1>4. ASSUME NEW r \in Request,
               Enter(r) \/ Advance(r) \/ Cancel(r) \/ ArrivalCancelled(r)
        PROVE  UNCHANGED <<held, resultsFile>>
    <2>1. CASE Enter(r)
      <3>1. EnterTurn(r) \/ \E end : FastPath(r, end)
        BY <2>1 DEF Enter, EnterDrop, EnterPreempt, EnterDefer, EnterBusy
      <3> QED
        BY <3>1 DEF EnterTurn, FastPath
    <2>2. CASE Start(r) \/ SeeInterrupt(r) \/ RunPreempting(r) \/ StopTurn(r)
               \/ DrainDeferred(r) \/ StreamEnds(r)
      BY <2>2 DEF Start, SeeInterrupt, RunPreempting, StopTurn, DrainDeferred,
                  StreamEnds
    <2>3. CASE Publish(r) \/ TurnRaises(r) \/ ReportFailure(r) \/ Release(r)
               \/ TaskCancelled(r) \/ ReleaseCancelled(r) \/ Cancel(r)
               \/ ArrivalCancelled(r)
      BY <2>3 DEF Publish, TurnRaises, ReportFailure, Release, TaskCancelled,
                  ReleaseCancelled, Cancel, ArrivalCancelled
    <2> QED
      BY <1>4, <2>1, <2>2, <2>3 DEF Advance
  <1> QED
    BY <1>1, <1>2, <1>3, <1>4 DEF Next

(* How the steps of a turn that end a pass move the messages.              *)
LEMMA PassMoves ==
  ASSUME IInv, NEW r \in Request, NEW end, NEW next,
         fate' = PassEnds(ctxOf[r], end, next)
  PROVE  \A q \in Request :
           fate'[q] = IF ctxOf[q] = ctxOf[r] /\ fate[q] = "working" THEN end
                      ELSE IF ctxOf[q] = ctxOf[r] /\ fate[q] = "queued" THEN next
                      ELSE fate[q]
  <1>1. ctxOf[r] \in Context
    BY TurnAssumption
  <1> QED
    BY <1>1, PassEndsAt, Zenon DEF IInv

(* The same, of the queues.                                                *)
LEMMA QueueMoves ==
  ASSUME IInv, NEW r \in Request, ConsumePending(ctxOf[r])
  PROVE  /\ pending'[ctxOf[r]] = <<>>
         /\ \A c \in Context : c # ctxOf[r] => pending'[c] = pending[c]
  BY TurnAssumption DEF IInv, TypeOK, ConsumePending

(* A message in work belongs to a turn that has not come to its end.       *)
LEMMA WorkStep == IInv /\ Next => WorkHasTurn'
  <1> SUFFICES ASSUME IInv, Next PROVE WorkHasTurn'
    OBVIOUS
  <1>m. ASSUME NEW r \in Request, NEW end, NEW next,
               fate' = PassEnds(ctxOf[r], end, next)
        PROVE  \A q \in Request :
                 fate'[q] = IF ctxOf[q] = ctxOf[r] /\ fate[q] = "working"
                            THEN end
                            ELSE IF ctxOf[q] = ctxOf[r] /\ fate[q] = "queued"
                            THEN next ELSE fate[q]
    BY <1>m, PassMoves
  <1> USE TurnAssumption DEF IInv, WorkHasTurn, TypeOK, Live, LivePC
  <1>1. CASE \E d \in Result : Harvest(d)
    BY <1>1 DEF Harvest, entryVars
  <1>2. ASSUME NEW r \in Request, NEW end, end # "working",
               pc[r] \in {"new", "arriving"},
               fate' = fate \/ fate' = [fate EXCEPT ![r] = end],
               \E to : pc' = [pc EXCEPT ![r] = to]
        PROVE  WorkHasTurn'
    BY <1>2
  <1>3. ASSUME NEW r \in Request, EnterTurn(r) PROVE WorkHasTurn'
    BY <1>3 DEF EnterTurn
  <1>4. ASSUME NEW r \in Request,
               Start(r) \/ SeeInterrupt(r) \/ StreamEnds(r) \/ TurnRaises(r)
        PROVE  WorkHasTurn'
    <2>1. /\ UNCHANGED fate
          /\ pc[r] \in LivePC \ {"releasing"}
          /\ \E to \in LivePC \ {"releasing"} : pc' = [pc EXCEPT ![r] = to]
      BY <1>4 DEF Start, SeeInterrupt, StreamEnds, TurnRaises
    <2> QED
      BY <2>1
  <1>5. ASSUME NEW r \in Request, Release(r) \/ ReleaseCancelled(r)
        PROVE  WorkHasTurn'
    BY <1>5 DEF Release, ReleaseCancelled
  <1>6. ASSUME NEW r \in Request, Cancel(r) PROVE WorkHasTurn'
    BY <1>6 DEF Cancel
  <1>7. ASSUME NEW r \in Request, RunPreempting(r) \/ DrainDeferred(r)
        PROVE  WorkHasTurn'
    <2>1. PICK end \in {"yielded", "streamed"} :
             fate' = PassEnds(ctxOf[r], end, "working")
      BY <1>7 DEF RunPreempting, DrainDeferred
    <2>2. pc'[r] = "streaming" /\ \A q \in Request : q # r => pc'[q] = pc[q]
      BY <1>7 DEF RunPreempting, DrainDeferred
    <2>3. \A q \in Request : fate'[q] = "working" =>
             ctxOf[q] = ctxOf[r] \/ fate[q] = "working"
      BY <2>1, <1>m
    <2> QED
      BY <2>2, <2>3
  <1>8. ASSUME NEW r \in Request,
               StopTurn(r) \/ Publish(r) \/ ReportFailure(r) \/ TaskCancelled(r)
        PROVE  WorkHasTurn'
    <2>1. PICK end \in Settled, next \in {"stopped", "queued"} :
             fate' = PassEnds(ctxOf[r], end, next)
      <3>1. CASE StopTurn(r)
        BY <3>1, Zenon DEF StopTurn, Settled
      <3>2. CASE Publish(r)
        BY <3>2, Zenon DEF Publish, Settled
      <3>3. CASE ReportFailure(r)
        BY <3>3, Zenon DEF ReportFailure, Settled
      <3>4. CASE TaskCancelled(r)
        BY <3>4, Zenon DEF TaskCancelled, Settled
      <3> QED
        BY <1>8, <3>1, <3>2, <3>3, <3>4
    <2>2. \A q \in Request : q # r => pc'[q] = pc[q]
      BY <1>8 DEF StopTurn, Publish, ReportFailure, TaskCancelled
    <2>3. \A q \in Request : fate'[q] = "working" =>
             fate[q] = "working" /\ ctxOf[q] # ctxOf[r]
      BY <2>1, <1>m DEF Settled
    <2> QED
      BY <2>2, <2>3
  <1>9. ASSUME NEW r \in Request,
               Receive(r) \/ Reject(r) \/ ArrivalCancelled(r) \/ Enter(r)
        PROVE  WorkHasTurn'
    <2>1. CASE Receive(r) \/ Reject(r) \/ ArrivalCancelled(r)
      <3>1. /\ pc[r] \in {"new", "arriving"}
            /\ \E to : pc' = [pc EXCEPT ![r] = to]
        BY <2>1 DEF Receive, Reject, ArrivalCancelled
      <3>2. PICK end \in {"rejected", "withdrawn"} :
               fate' = fate \/ fate' = [fate EXCEPT ![r] = end]
        BY <2>1 DEF Receive, Reject, ArrivalCancelled
      <3> QED
        BY <3>1, <3>2, <1>2
    <2>2. ASSUME NEW end, end # "working", FastPath(r, end) PROVE WorkHasTurn'
      BY <2>2, <1>2 DEF FastPath
    <2> QED
      BY <1>3, <1>9, <2>1, <2>2
         DEF Enter, EnterDrop, EnterPreempt, EnterDefer, EnterBusy
  <1> QED
    BY <1>1, <1>4, <1>5, <1>6, <1>7, <1>8, <1>9 DEF Next, Advance

(* Queue and fates stay in step.                                           *)
LEMMA QueueStep == IInv /\ Next => QueuedIsPending'
  <1> SUFFICES ASSUME IInv, Next PROVE QueuedIsPending'
    OBVIOUS
  <1>m. ASSUME NEW r \in Request, NEW end, NEW next,
               fate' = PassEnds(ctxOf[r], end, next)
        PROVE  \A q \in Request :
                 fate'[q] = IF ctxOf[q] = ctxOf[r] /\ fate[q] = "working"
                            THEN end
                            ELSE IF ctxOf[q] = ctxOf[r] /\ fate[q] = "queued"
                            THEN next ELSE fate[q]
    BY <1>m, PassMoves
  <1>n. ASSUME NEW r \in Request, ConsumePending(ctxOf[r])
        PROVE  /\ pending'[ctxOf[r]] = <<>>
               /\ \A c \in Context : c # ctxOf[r] => pending'[c] = pending[c]
    BY <1>n, QueueMoves
  <1> USE TurnAssumption DEF IInv, QueuedIsPending, TypeOK, Waiting
  <1>1. ASSUME UNCHANGED pending,
               \A q \in Request : fate'[q] = "queued" <=> fate[q] = "queued"
        PROVE  QueuedIsPending'
    BY <1>1
  <1>2. ASSUME NEW r \in Request, EnterPreempt(r) \/ EnterDefer(r)
        PROVE  QueuedIsPending'
    <2> DEFINE c == ctxOf[r]
    <2>1. /\ c \in Context
          /\ fate[r] = "none"
          /\ fate' = [fate EXCEPT ![r] = "queued"]
          /\ pending' = [pending EXCEPT ![c] = Append(@, r)]
      BY <1>2 DEF EnterPreempt, EnterDefer, FastPath, Fresh
    <2>2. \A d \in Context : d # c => pending'[d] = pending[d]
      BY <2>1
    <2>3. /\ Len(pending'[c]) = Len(pending[c]) + 1
          /\ pending'[c][Len(pending[c]) + 1] = r
          /\ \A i \in 1..Len(pending[c]) : pending'[c][i] = pending[c][i]
      BY <2>1
    <2>4. \A i \in 1..Len(pending[c]) : pending[c][i] # r
      BY <2>1
    <2>5. \A q \in Request : fate'[q] = "queued" <=>
             q = r \/ fate[q] = "queued"
      BY <2>1
    <2>6. ASSUME NEW q \in Request, fate'[q] = "queued"
          PROVE  \E i \in 1..Len(pending'[ctxOf[q]]) : pending'[ctxOf[q]][i] = q
      <3>1. CASE q = r
        <4>1. Len(pending[c]) + 1 \in 1..Len(pending'[c])
          BY <2>1, <2>3
        <4> QED
          BY <3>1, <4>1, <2>3
      <3>2. CASE q # r /\ ctxOf[q] = c
        <4>1. PICK i \in 1..Len(pending[c]) : pending[c][i] = q
          BY <2>6, <3>2, <2>5
        <4>2. i \in 1..Len(pending'[c]) /\ pending'[c][i] = q
          BY <4>1, <2>1, <2>3
        <4> QED
          BY <3>2, <4>2
      <3>3. CASE ctxOf[q] # c
        <4>1. fate[q] = "queued" /\ pending'[ctxOf[q]] = pending[ctxOf[q]]
          BY <2>6, <3>3, <2>2, <2>5
        <4> QED
          BY <4>1
      <3> QED
        BY <3>1, <3>2, <3>3
    <2>7. ASSUME NEW d \in Context
          PROVE  /\ \A i \in 1..Len(pending'[d]) :
                       /\ pending'[d][i] \in Request
                       /\ ctxOf[pending'[d][i]] = d
                       /\ fate'[pending'[d][i]] = "queued"
                 /\ \A i, j \in 1..Len(pending'[d]) :
                       pending'[d][i] = pending'[d][j] => i = j
      <3>1. CASE d # c
        <4>1. pending'[d] = pending[d]
          BY <3>1, <2>2
        <4>2. \A i \in 1..Len(pending[d]) :
                 /\ pending[d][i] \in Request
                 /\ ctxOf[pending[d][i]] = d
                 /\ fate[pending[d][i]] = "queued"
          OBVIOUS
        <4>3. \A i, j \in 1..Len(pending[d]) :
                 pending[d][i] = pending[d][j] => i = j
          OBVIOUS
        <4> QED
          BY <4>1, <4>2, <4>3, <2>5
      <3>2. \A i \in 1..Len(pending'[c]) :
               i \in 1..Len(pending[c]) \/ i = Len(pending[c]) + 1
        BY <2>1, <2>3
      <3>3. \A i \in 1..Len(pending'[c]) :
               /\ pending'[c][i] \in Request
               /\ ctxOf[pending'[c][i]] = c
               /\ fate'[pending'[c][i]] = "queued"
        BY <3>2, <2>1, <2>3, <2>5
      <3>4. \A i, j \in 1..Len(pending'[c]) :
               pending'[c][i] = pending'[c][j] => i = j
        BY <3>2, <2>1, <2>3, <2>4
      <3>5. CASE d = c
        BY <3>3, <3>4, <3>5
      <3> QED
        BY <3>1, <3>5
    <2> QED
      BY <2>6, <2>7
  <1>3. ASSUME NEW r \in Request, ConsumePending(ctxOf[r]),
               \A q \in Request : fate'[q] = "queued" <=>
                  fate[q] = "queued" /\ ctxOf[q] # ctxOf[r]
        PROVE  QueuedIsPending'
    <2>1. Len(pending'[ctxOf[r]]) = 0
      BY <1>3, <1>n
    <2>2. ASSUME NEW d \in Context
          PROVE  /\ \A i \in 1..Len(pending'[d]) :
                       /\ pending'[d][i] \in Request
                       /\ ctxOf[pending'[d][i]] = d
                       /\ fate'[pending'[d][i]] = "queued"
                 /\ \A i, j \in 1..Len(pending'[d]) :
                       pending'[d][i] = pending'[d][j] => i = j
      <3>1. CASE d = ctxOf[r]
        BY <3>1, <2>1
      <3>2. CASE d # ctxOf[r]
        <4>1. pending'[d] = pending[d]
          BY <1>3, <1>n, <3>2
        <4> QED
          BY <4>1, <1>3, <3>2
      <3> QED
        BY <3>1, <3>2
    <2>3. ASSUME NEW q \in Request, fate'[q] = "queued"
          PROVE  \E i \in 1..Len(pending'[ctxOf[q]]) : pending'[ctxOf[q]][i] = q
      <3>1. /\ fate[q] = "queued"
            /\ pending'[ctxOf[q]] = pending[ctxOf[q]]
        BY <2>3, <1>3, <1>n
      <3> QED
        BY <3>1
    <2> QED
      BY <2>2, <2>3
  <1>4. ASSUME NEW r \in Request,
               RunPreempting(r) \/ StopTurn(r) \/ DrainDeferred(r)
        PROVE  QueuedIsPending'
    <2>1. ConsumePending(ctxOf[r])
      BY <1>4 DEF RunPreempting, StopTurn, DrainDeferred
    <2>2. PICK end \in {"yielded", "stopped", "streamed"},
               next \in {"working", "stopped"} :
             fate' = PassEnds(ctxOf[r], end, next)
      BY <1>4 DEF RunPreempting, StopTurn, DrainDeferred
    <2>3. \A q \in Request : fate'[q] = "queued" <=>
             fate[q] = "queued" /\ ctxOf[q] # ctxOf[r]
      <3>1. end # "queued" /\ next # "queued"
        OBVIOUS
      <3> QED
        BY <1>m, <2>2, <3>1
    <2> QED
      BY <1>3, <2>1, <2>3
  <1>5. ASSUME NEW r \in Request, StreamEnds(r) PROVE QueuedIsPending'
    <2>1. /\ ConsumePending(ctxOf[r])
          /\ UNCHANGED fate
          /\ pending[ctxOf[r]] = <<>>
      BY <1>5 DEF StreamEnds
    <2>2. pending' = pending
      BY <2>1 DEF ConsumePending
    <2> QED
      BY <1>1, <2>1, <2>2
  <1>6. ASSUME NEW r \in Request,
               Publish(r) \/ ReportFailure(r) \/ TaskCancelled(r)
        PROVE  QueuedIsPending'
    <2>1. UNCHANGED pending
      BY <1>6 DEF Publish, ReportFailure, TaskCancelled, entryVars
    <2>2. PICK end \in Settled : fate' = PassEnds(ctxOf[r], end, "queued")
      <3>1. CASE Publish(r)
        BY <3>1, Zenon DEF Publish, Settled
      <3>2. CASE ReportFailure(r)
        BY <3>2, Zenon DEF ReportFailure, Settled
      <3>3. CASE TaskCancelled(r)
        BY <3>3, Zenon DEF TaskCancelled, Settled
      <3> QED
        BY <1>6, <3>1, <3>2, <3>3
    <2>3. \A q \in Request : fate'[q] = "queued" <=> fate[q] = "queued"
      <3>1. end # "queued"
        BY DEF Settled
      <3> QED
        BY <1>m, <2>2, <3>1
    <2> QED
      BY <1>1, <2>1, <2>3
  <1>7. ASSUME NEW r \in Request,
               Start(r) \/ SeeInterrupt(r) \/ TurnRaises(r) \/ Release(r)
               \/ ReleaseCancelled(r) \/ Cancel(r) \/ Receive(r)
        PROVE  QueuedIsPending'
    <2>1. UNCHANGED <<pending, fate>>
      BY <1>7 DEF Start, SeeInterrupt, TurnRaises, Release, ReleaseCancelled,
                  Cancel, Receive, entryVars
    <2> QED
      BY <1>1, <2>1
  <1>8. ASSUME NEW r \in Request,
               Reject(r) \/ ArrivalCancelled(r) \/ EnterTurn(r)
               \/ EnterDrop(r) \/ EnterBusy(r)
        PROVE  QueuedIsPending'
    <2>1. /\ UNCHANGED pending
          /\ \E end \in {"rejected", "withdrawn", "working", "dropped", "busy"} :
                fate' = [fate EXCEPT ![r] = end]
      BY <1>8 DEF Reject, ArrivalCancelled, EnterTurn, EnterDrop, EnterBusy,
                  FastPath, entryVars
    <2>2. fate[r] = "none"
      BY <1>8 DEF Reject, ArrivalCancelled, EnterTurn, EnterDrop, EnterBusy, FastPath, Fresh
    <2> QED
      BY <1>1, <2>1, <2>2
  <1>9. CASE \E d \in Result : Harvest(d)
    BY <1>9, <1>1 DEF Harvest, entryVars
  <1> QED
    BY <1>2, <1>4, <1>5, <1>6, <1>7, <1>8, <1>9 DEF Next, Enter, Advance

(* The mark "idle turn" and a pending preemption always speak of a pass    *)
(* that answers nobody but the idle loop.                                  *)
LEMMA IdleStep == IInv /\ Next => OnlyIdleYields'
  <1> SUFFICES ASSUME IInv, Next PROVE OnlyIdleYields'
    OBVIOUS
  <1>m. ASSUME NEW r \in Request, NEW end, NEW next,
               fate' = PassEnds(ctxOf[r], end, next)
        PROVE  \A q \in Request :
                 fate'[q] = IF ctxOf[q] = ctxOf[r] /\ fate[q] = "working"
                            THEN end
                            ELSE IF ctxOf[q] = ctxOf[r] /\ fate[q] = "queued"
                            THEN next ELSE fate[q]
    BY <1>m, PassMoves
  <1>n. \A r, q \in Request :
           ctxOf[r] = ctxOf[q] /\ ~inFlight[ctxOf[r]] => fate[q] # "working"
    BY DEF IInv, WorkHasTurn, OneTurnPerContext
  <1> USE TurnAssumption DEF IInv, OnlyIdleYields, TypeOK, Working
  <1>1. ASSUME UNCHANGED <<source, preempt>>,
               \A q \in Request : fate'[q] = "working" => fate[q] = "working"
        PROVE  OnlyIdleYields'
    BY <1>1
  <1>2. ASSUME NEW r \in Request, EnterTurn(r) PROVE OnlyIdleYields'
    <2> DEFINE c == ctxOf[r]
    <2>1. /\ c \in Context
          /\ ~inFlight[c]
          /\ source' = [source EXCEPT ![c] = SourceType(r)]
          /\ preempt' = [preempt EXCEPT ![c] = FALSE]
          /\ fate' = [fate EXCEPT ![r] = "working"]
      BY <1>2 DEF EnterTurn
    <2>2. SourceType(r) = "idle" => kindOf[r] = "idle"
      BY DEF SourceType, None
    <2>3. ASSUME NEW q \in Request, ctxOf[q] = c, fate'[q] = "working"
          PROVE  q = r
      BY <1>n, <2>1, <2>3
    <2>4. \A d \in Context : d # c =>
             source'[d] = source[d] /\ preempt'[d] = preempt[d]
      BY <2>1
    <2>5. \A q \in Request : ctxOf[q] # c => fate'[q] = fate[q]
      BY <2>1
    <2>6. source'[c] = SourceType(r) /\ preempt'[c] = FALSE
      BY <2>1
    <2> QED
      BY <2>2, <2>3, <2>4, <2>5, <2>6
  <1>3. ASSUME NEW r \in Request, EnterPreempt(r) PROVE OnlyIdleYields'
    BY <1>3 DEF EnterPreempt, FastPath, Preempts
  <1>4. ASSUME NEW r \in Request,
               Reject(r) \/ ArrivalCancelled(r) \/ EnterDrop(r)
               \/ EnterDefer(r) \/ EnterBusy(r)
        PROVE  OnlyIdleYields'
    <2>1. /\ UNCHANGED <<source, preempt>>
          /\ \E end \in {"rejected", "withdrawn", "dropped", "queued", "busy"} :
                fate' = [fate EXCEPT ![r] = end]
      BY <1>4 DEF Reject, ArrivalCancelled, EnterDrop, EnterDefer, EnterBusy,
                  FastPath, entryVars
    <2> QED
      BY <1>1, <2>1
  <1>5. ASSUME NEW r \in Request, RunPreempting(r) \/ DrainDeferred(r)
        PROVE  OnlyIdleYields'
    <2>1. /\ source' = [source EXCEPT ![ctxOf[r]] = None]
          /\ preempt' = [preempt EXCEPT ![ctxOf[r]] = FALSE]
      BY <1>5 DEF RunPreempting, DrainDeferred
    <2>2. \E end : fate' = PassEnds(ctxOf[r], end, "working")
      BY <1>5, Zenon DEF RunPreempting, DrainDeferred
    <2>3. \A q \in Request : ctxOf[q] # ctxOf[r] => fate'[q] = fate[q]
      BY <2>2, <1>m
    <2> QED
      BY <2>1, <2>3 DEF None
  <1>6. ASSUME NEW r \in Request, StopTurn(r) PROVE OnlyIdleYields'
    <2>1. /\ UNCHANGED source
          /\ preempt' = [preempt EXCEPT ![ctxOf[r]] = FALSE]
          /\ fate' = PassEnds(ctxOf[r], "stopped", "stopped")
      BY <1>6 DEF StopTurn
    <2>2. \A q \in Request : fate'[q] = "working" => fate[q] = "working"
      BY <2>1, <1>m
    <2> QED
      BY <2>1, <2>2
  <1>7. ASSUME NEW r \in Request,
               Publish(r) \/ ReportFailure(r) \/ TaskCancelled(r)
        PROVE  OnlyIdleYields'
    <2>1. UNCHANGED <<source, preempt>>
      BY <1>7 DEF Publish, ReportFailure, TaskCancelled, entryVars
    <2>2. PICK end \in Settled : fate' = PassEnds(ctxOf[r], end, "queued")
      <3>1. CASE Publish(r)
        BY <3>1, Zenon DEF Publish, Settled
      <3>2. CASE ReportFailure(r)
        BY <3>2, Zenon DEF ReportFailure, Settled
      <3>3. CASE TaskCancelled(r)
        BY <3>3, Zenon DEF TaskCancelled, Settled
      <3> QED
        BY <1>7, <3>1, <3>2, <3>3
    <2>3. \A q \in Request : fate'[q] = "working" => fate[q] = "working"
      <3>1. end # "working"
        BY DEF Settled
      <3> QED
        BY <1>m, <2>2, <3>1
    <2> QED
      BY <1>1, <2>1, <2>3
  <1>8. ASSUME NEW r \in Request,
               Receive(r) \/ Start(r) \/ SeeInterrupt(r) \/ StreamEnds(r)
               \/ TurnRaises(r) \/ ReleaseCancelled(r) \/ Cancel(r)
        PROVE  OnlyIdleYields'
    <2>1. UNCHANGED <<source, preempt, fate>>
      BY <1>8 DEF Receive, Start, SeeInterrupt, StreamEnds, TurnRaises,
                  ReleaseCancelled, Cancel, entryVars
    <2> QED
      BY <1>1, <2>1
  <1>9. ASSUME NEW r \in Request, Release(r) PROVE OnlyIdleYields'
    BY <1>9 DEF Release, None
  <1>10. CASE \E d \in Result : Harvest(d)
    BY <1>10, <1>1 DEF Harvest, entryVars
  <1> QED
    BY <1>2, <1>3, <1>4, <1>5, <1>6, <1>7, <1>8, <1>9, <1>10
       DEF Next, Enter, Advance

-----------------------------------------------------------------------------
(* The inductive invariant holds before the first request.                 *)
LEMMA IInvInit == Init => IInv
  <1> SUFFICES ASSUME Init PROVE IInv
    OBVIOUS
  <1>1. TypeOK
    BY TypeInit
  <1>2. Fresh /\ OneTurnPerContext /\ WorkHasTurn /\ ResultGivenOnce
    BY DEF Init, Fresh, OneTurnPerContext, WorkHasTurn, ResultGivenOnce, Live,
           LivePC
  <1>3. QueuedIsPending
    BY DEF Init, QueuedIsPending
  <1>4. OnlyIdleYields
    BY DEF Init, OnlyIdleYields, None
  <1> QED
    BY <1>1, <1>2, <1>3, <1>4 DEF IInv

(* Every step keeps the inductive invariant: one lemma above per conjunct. *)
LEMMA IInvStep == IInv /\ [Next]_vars => IInv'
  <1> SUFFICES ASSUME IInv, [Next]_vars PROVE IInv'
    OBVIOUS
  <1>1. CASE Next
    <2>1. TypeOK'
      BY <1>1, TypeStep DEF IInv
    <2> QED
      BY <1>1, <2>1, FreshStep, OneTurnStep, WorkStep, QueueStep, IdleStep,
         ResultStep DEF IInv
  <1>2. CASE UNCHANGED vars
    BY <1>2 DEF vars, entryVars, IInv, TypeOK, Fresh, OneTurnPerContext,
                WorkHasTurn, QueuedIsPending, OnlyIdleYields, ResultGivenOnce,
                Live, Working, Waiting
  <1> QED
    BY <1>1, <1>2

(* The inductive invariant holds in every reachable state.                 *)
LEMMA Inductive == Spec => []IInv
  BY IInvInit, IInvStep, PTL DEF Spec

(* No conversation ever has two turns, whatever the order of arrivals,     *)
(* failures and Stops.                                                     *)
THEOREM MutualExclusion == Spec => []OneTurnPerContext
  BY Inductive, PTL DEF IInv

(* A user message never interrupts the answer to another user message.     *)
THEOREM PreemptionSafe == Spec => []OnlyIdleYields
  BY Inductive, PTL DEF IInv

(* An acknowledged message stays in its queue, once, until it is taken.    *)
THEOREM NoMessageLost == Spec => []QueuedIsPending
  BY Inductive, PTL DEF IInv

(* What is in work belongs to a turn that still runs.                      *)
THEOREM WorkIsOwned == Spec => []WorkHasTurn
  BY Inductive, PTL DEF IInv

(* No delegation result reaches the agent twice.                           *)
THEOREM ResultsAtMostOnce == Spec => []ResultGivenOnce
  BY Inductive, PTL DEF IInv

(* What the executor took on it keeps and gives out once.                  *)
THEOREM WorkKept == Spec => []WorkIsKept
  BY PreemptionSafe, NoMessageLost, WorkIsOwned, ResultsAtMostOnce, PTL
     DEF WorkIsKept

-----------------------------------------------------------------------------
(* Stops and the task counter.                                             *)

(* A Stop that came before its request got to run, or that took it back.   *)
Overtook(q) == cancel[q] # "no" /\ (pc[q] = "arriving" \/ fate[q] = "withdrawn")

(* Messages that were taken back stay so, and nothing else that is done to *)
(* them hides the Stop, as long as no turn of their conversation began.    *)
LEMMA OvertookStays ==
  ASSUME IInv, Next, NEW q \in Request, Overtook(q), ~inFlight'[ctxOf[q]]
  PROVE  Overtook(q)'
  <1> USE TurnAssumption DEF IInv, TypeOK, Overtook
  <1>p. ctxOf[q] \in Context
    OBVIOUS
  <1>1. CASE \E d \in Result : Harvest(d)
    BY <1>1 DEF Harvest
  <1>2. ASSUME NEW r \in Request, Receive(r) \/ Reject(r)
        PROVE  Overtook(q)'
    <2>1. pc[r] = "new" /\ UNCHANGED cancel
      BY <1>2 DEF Receive, Reject
    <2>2. r # q
      BY <2>1 DEF Fresh
    <2>3. pc'[q] = pc[q] /\ fate'[q] = fate[q]
      BY <1>2, <2>2 DEF Receive, Reject
    <2> QED
      BY <2>1, <2>3
  <1>3. ASSUME NEW r \in Request, ArrivalCancelled(r) PROVE Overtook(q)'
    BY <1>3 DEF ArrivalCancelled
  <1>4. ASSUME NEW r \in Request, Enter(r) PROVE Overtook(q)'
    <2>1. /\ UNCHANGED cancel
          /\ pc[r] = "arriving"
          /\ inFlight'[ctxOf[r]]
          /\ \E to : pc' = [pc EXCEPT ![r] = to]
          /\ \E end : fate' = [fate EXCEPT ![r] = end]
      BY <1>4 DEF Enter, EnterTurn, EnterDrop, EnterPreempt, EnterDefer,
                  EnterBusy, FastPath
    <2>2. r # q
      BY <2>1
    <2> QED
      BY <2>1, <2>2
  <1>5. ASSUME NEW r \in Request, Live(r), UNCHANGED fate,
               \E to : pc' = [pc EXCEPT ![r] = to],
               cancel'[q] = cancel[q] \/ cancel'[q] = "hit"
        PROVE  Overtook(q)'
    BY <1>5 DEF Live, LivePC
  <1>6. ASSUME NEW r \in Request, Live(r),
               \E to : pc' = [pc EXCEPT ![r] = to],
               \E end, next : fate' = PassEnds(ctxOf[r], end, next),
               cancel'[q] = cancel[q] \/ cancel'[q] = "hit"
        PROVE  Overtook(q)'
    <2>1. fate[q] = "withdrawn" => fate'[q] = "withdrawn"
      <3>1. PICK end, next : fate' = PassEnds(ctxOf[r], end, next)
        BY <1>6
      <3> QED
        BY <3>1, PassMoves
    <2> QED
      BY <1>6, <2>1 DEF Live, LivePC
  <1>7. ASSUME NEW r \in Request, Advance(r) PROVE Overtook(q)'
    <2>1. CASE Start(r) \/ SeeInterrupt(r) \/ StreamEnds(r) \/ TurnRaises(r)
               \/ Release(r)
      BY <2>1, <1>5 DEF Start, SeeInterrupt, StreamEnds, TurnRaises, Release,
                        Live, LivePC
    <2>2. CASE ReleaseCancelled(r)
      BY <2>2, <1>5 DEF ReleaseCancelled, Live, LivePC
    <2>3. CASE RunPreempting(r) \/ StopTurn(r)
      BY <2>3, <1>6 DEF RunPreempting, StopTurn, Live, LivePC
    <2>4. CASE DrainDeferred(r)
      <3>1. pc' = [pc EXCEPT ![r] = "streaming"]
        BY <2>4 DEF DrainDeferred
      <3> QED
        BY <2>4, <3>1, <1>6 DEF DrainDeferred, Live, LivePC
    <2>5. CASE Publish(r) \/ ReportFailure(r)
      BY <2>5, <1>6 DEF Publish, ReportFailure, Live, LivePC
    <2>6. CASE TaskCancelled(r)
      BY <2>6, <1>6 DEF TaskCancelled, Live, LivePC
    <2> QED
      BY <1>7, <2>1, <2>2, <2>3, <2>4, <2>5, <2>6 DEF Advance
  <1>8. ASSUME NEW r \in Request, Cancel(r) PROVE Overtook(q)'
    BY <1>8 DEF Cancel
  <1> QED
    BY <1>1, <1>2, <1>3, <1>4, <1>7, <1>8 DEF Next

(* An interrupt that is set where no turn is in flight was set before, or  *)
(* by the Stop of a request that has yet to run.                           *)
LEMMA InterruptHasCause ==
  ASSUME IInv, Next, NEW c \in Context, interrupt'[c], ~inFlight'[c]
  PROVE  \/ interrupt[c] /\ ~inFlight[c]
         \/ \E r \in Request : ctxOf[r] = c /\ Overtook(r)'
  <1> USE TurnAssumption DEF IInv, TypeOK
  <1>1. ASSUME UNCHANGED <<interrupt, inFlight>> PROVE interrupt[c] /\ ~inFlight[c]
    BY <1>1
  <1>2. CASE \E d \in Result : Harvest(d)
    BY <1>1, <1>2 DEF Harvest, entryVars
  <1>3. ASSUME NEW r \in Request, Receive(r) \/ Reject(r) \/ ArrivalCancelled(r)
        PROVE  interrupt[c] /\ ~inFlight[c]
    BY <1>1, <1>3 DEF Receive, Reject, ArrivalCancelled, entryVars
  <1>4. ASSUME NEW r \in Request, Enter(r) PROVE interrupt[c] /\ ~inFlight[c]
    <2>1. CASE EnterTurn(r)
      BY <2>1 DEF EnterTurn
    <2>2. CASE EnterPreempt(r)
      BY <2>2 DEF EnterPreempt, FastPath
    <2>3. CASE EnterDrop(r) \/ EnterDefer(r) \/ EnterBusy(r)
      BY <1>1, <2>3 DEF EnterDrop, EnterDefer, EnterBusy, FastPath
    <2> QED
      BY <1>4, <2>1, <2>2, <2>3 DEF Enter
  <1>5. ASSUME NEW r \in Request, Advance(r) PROVE interrupt[c] /\ ~inFlight[c]
    <2>1. CASE RunPreempting(r) \/ StopTurn(r) \/ DrainDeferred(r) \/ StreamEnds(r)
      BY <2>1 DEF RunPreempting, StopTurn, DrainDeferred, StreamEnds, ConsumePending
    <2>2. CASE Release(r)
      BY <2>2 DEF Release
    <2>3. CASE Start(r) \/ SeeInterrupt(r) \/ Publish(r) \/ TurnRaises(r)
               \/ ReportFailure(r) \/ TaskCancelled(r) \/ ReleaseCancelled(r)
      BY <1>1, <2>3 DEF Start, SeeInterrupt, Publish, TurnRaises, ReportFailure,
                        TaskCancelled, ReleaseCancelled, entryVars
    <2> QED
      BY <1>5, <2>1, <2>2, <2>3 DEF Advance
  <1>6. ASSUME NEW r \in Request, Cancel(r), ~(interrupt[c] /\ ~inFlight[c])
        PROVE  ctxOf[r] = c /\ Overtook(r)'
    <2>1. ctxOf[r] = c /\ ~inFlight[c]
      BY <1>6 DEF Cancel
    <2>2. pc[r] = "arriving"
      BY <1>6, <2>1 DEF Cancel, OneTurnPerContext, Live, PC
    <2> QED
      BY <1>6, <2>1, <2>2 DEF Cancel, Overtook
  <1> QED
    BY <1>2, <1>3, <1>4, <1>5, <1>6 DEF Next

(* No Stop outlives the turn it was meant for.                             *)
LEMMA StrayStep == IInv /\ NoStrayInterrupt /\ [Next]_vars => NoStrayInterrupt'
  <1> SUFFICES ASSUME IInv, NoStrayInterrupt, [Next]_vars PROVE NoStrayInterrupt'
    OBVIOUS
  <1>1. CASE UNCHANGED vars
    BY <1>1 DEF vars, entryVars, NoStrayInterrupt
  <1>2. CASE Next
    <2> SUFFICES ASSUME NEW c \in Context, interrupt'[c], ~inFlight'[c]
                 PROVE  \E r \in Request : ctxOf[r] = c /\ Overtook(r)'
      BY DEF NoStrayInterrupt, Overtook
    <2>1. CASE interrupt[c] /\ ~inFlight[c]
      <3>1. PICK r \in Request : ctxOf[r] = c /\ Overtook(r)
        BY <2>1 DEF NoStrayInterrupt, Overtook
      <3> QED
        BY <1>2, <3>1, OvertookStays
    <2> QED
      BY <1>2, <2>1, InterruptHasCause
  <1> QED
    BY <1>1, <1>2

(* With no turn in flight an interrupt is set only by a Stop that came     *)
(* before its request got to run: no Stop or preemption hits a later turn. *)
THEOREM InterruptsAreMeant == Spec => []NoStrayInterrupt
  <1>1. Init => NoStrayInterrupt
    BY DEF Init, NoStrayInterrupt
  <1> QED
    BY <1>1, StrayStep, Inductive, PTL DEF Spec

(* The turns the task counter counts.                                      *)
Running == {r \in Request : Live(r) /\ pc[r] # "releasing"}

CountHolds == IsFiniteSet(Running) /\ NoPhantomBusy

(* The counter goes up with a turn that begins and down with one that ends.*)
LEMMA CountMoves ==
  ASSUME IInv, Next
  PROVE  \/ \E r \in Request : /\ r \notin Running /\ Running' = Running \cup {r}
                              /\ \E b \in BOOLEAN : active' = TaskCount(b)
         \/ \E r \in Running : Running' = Running \ {r} /\ active' = TaskCount(FALSE)
         \/ Running' = Running /\ active' = active
  <1> USE DEF IInv, TypeOK, Running, Live, LivePC
  <1>1. CASE \E d \in Result : Harvest(d)
    BY <1>1 DEF Harvest
  <1>2. ASSUME NEW r \in Request, Receive(r) \/ Reject(r) \/ ArrivalCancelled(r)
        PROVE  Running' = Running /\ active' = active
    BY <1>2 DEF Receive, Reject, ArrivalCancelled
  <1>3. ASSUME NEW r \in Request, EnterTurn(r)
        PROVE  /\ r \notin Running /\ Running' = Running \cup {r}
               /\ \E b \in BOOLEAN : active' = TaskCount(b)
    <2>1. HasLabel(r) \in BOOLEAN
      BY DEF HasLabel
    <2> QED
      BY <1>3, <2>1 DEF EnterTurn
  <1>4. ASSUME NEW r \in Request, NEW end, FastPath(r, end)
        PROVE  Running' = Running /\ active' = active
    BY <1>4 DEF FastPath
  <1>5. ASSUME NEW r \in Request, Publish(r) \/ ReportFailure(r) \/ TaskCancelled(r)
        PROVE  r \in Running /\ Running' = Running \ {r} /\ active' = TaskCount(FALSE)
    <2>1. /\ pc[r] \in LivePC \ {"releasing"} /\ pc' = [pc EXCEPT ![r] = "releasing"]
          /\ active' = TaskCount(FALSE)
      BY <1>5 DEF Publish, ReportFailure, TaskCancelled
    <2> QED
      BY <2>1
  <1>6. ASSUME NEW r \in Request,
               Start(r) \/ SeeInterrupt(r) \/ RunPreempting(r) \/ StopTurn(r)
               \/ StreamEnds(r) \/ TurnRaises(r)
        PROVE  Running' = Running /\ active' = active
    BY <1>6 DEF Start, SeeInterrupt, RunPreempting, StopTurn, StreamEnds, TurnRaises
  <1>7. ASSUME NEW r \in Request,
               DrainDeferred(r) \/ Release(r) \/ ReleaseCancelled(r) \/ Cancel(r)
        PROVE  Running' = Running /\ active' = active
    BY <1>7 DEF DrainDeferred, Release, ReleaseCancelled, Cancel
  <1>8. ASSUME NEW r \in Request, Enter(r)
        PROVE  EnterTurn(r) \/ \E end : FastPath(r, end)
    BY <1>8 DEF Enter, EnterDrop, EnterPreempt, EnterDefer, EnterBusy
  <1> QED
    BY <1>1, <1>2, <1>3, <1>4, <1>5, <1>6, <1>7, <1>8 DEF Next, Advance

(* The counter never runs ahead of the turns.                              *)
LEMMA CountStep == IInv /\ CountHolds /\ [Next]_vars => CountHolds'
  <1> SUFFICES ASSUME IInv, CountHolds, [Next]_vars PROVE CountHolds'
    OBVIOUS
  <1>0. /\ active \in Nat /\ IsFiniteSet(Running) /\ Cardinality(Running) \in Nat
        /\ active <= Cardinality(Running)
    BY FS_CardinalityType DEF IInv, TypeOK, CountHolds, NoPhantomBusy, Running
  <1>1. CASE UNCHANGED vars
    <2>1. Running' = Running /\ active' = active
      BY <1>1 DEF vars, Running, Live
    <2> QED
      BY <1>0, <2>1 DEF CountHolds, NoPhantomBusy, Running
  <1>2. ASSUME NEW r \in Request, r \notin Running, Running' = Running \cup {r},
               NEW b \in BOOLEAN, active' = TaskCount(b)
        PROVE  IsFiniteSet(Running') /\ active' <= Cardinality(Running')
    <2>1. IsFiniteSet(Running') /\ Cardinality(Running') = Cardinality(Running) + 1
      BY <1>0, <1>2, FS_AddElement
    <2> QED
      BY <1>0, <1>2, <2>1 DEF TaskCount
  <1>3. ASSUME NEW r \in Running, Running' = Running \ {r}, active' = TaskCount(FALSE)
        PROVE  IsFiniteSet(Running') /\ active' <= Cardinality(Running')
    <2>1. IsFiniteSet(Running') /\ Cardinality(Running') = Cardinality(Running) - 1
      BY <1>0, <1>3, FS_RemoveElement
    <2>2. Cardinality(Running) > 0
      BY <1>0, <1>3, FS_EmptySet
    <2> QED
      BY <1>0, <1>3, <2>1, <2>2 DEF TaskCount
  <1>4. CASE Next
    <2>1. IsFiniteSet(Running') /\ active' <= Cardinality(Running')
      BY <1>0, <1>2, <1>3, <1>4, CountMoves
    <2> QED
      BY <2>1 DEF CountHolds, NoPhantomBusy, Running
  <1> QED
    BY <1>1, <1>4

(* The heartbeat never reports more tasks than turns are running.          *)
THEOREM BusyIsReal == Spec => []NoPhantomBusy
  <1>1. Init => CountHolds
    <2> SUFFICES ASSUME Init PROVE CountHolds
      OBVIOUS
    <2>1. Running = {} /\ active = 0
      BY DEF Init, Running, Live, LivePC
    <2> QED
      BY <2>1, FS_EmptySet DEF CountHolds, NoPhantomBusy, Running
  <1>2. CountHolds => NoPhantomBusy
    BY DEF CountHolds
  <1> QED
    BY <1>1, <1>2, CountStep, Inductive, PTL DEF Spec

-----------------------------------------------------------------------------
(* The executor implements TurnService: every step of it is a step of the  *)
(* promise made to the senders, or changes nothing they can see.           *)

(* The state of the promise, computed from the fates.                      *)
promised == [r \in Request |-> Promise(fate[r])]

(* The fates the promise tells apart from all others.                      *)
LEMMA PromiseOf ==
  ASSUME NEW f \in Fate
  PROVE  /\ Promise(f) = "active" <=> f = "working"
         /\ Promise(f) = "accepted" <=> f = "queued"
         /\ Promise(f) = "new" <=> f = "none"
  BY DEF Promise, Fate, Open, Settled

(* What the sender is told at each end of a message.                       *)
LEMMA PromiseOfEnds ==
  /\ Promise("none") = "new"
  /\ Promise("queued") = "accepted"
  /\ Promise("working") = "active"
  /\ \A f \in {"answered", "streamed"} : Promise(f) = "replied"
  /\ \A f \in {"dropped", "busy", "rejected", "withdrawn"} :
        Promise(f) = "refused"
  /\ \A f \in {"yielded", "suppressed", "failed", "stopped", "cancelled"} :
        Promise(f) = "abandoned"
  BY DEF Promise

(* The requests of a conversation, as the promise sees them.               *)
LEMMA InOf ==
  ASSUME TypeOK, NEW c \in Context
  PROVE  /\ Service!In(c, "active") = Working(c)
         /\ Service!In(c, "accepted") = Waiting(c)
  BY PromiseOf DEF TypeOK, Service!In, Working, Waiting

(* Before the first request the promise has not begun either.              *)
LEMMA InitPromised == Init => Service!Init
  BY PromiseOfEnds DEF Init, Service!Init

(* Every step of the executor is a step of the promise, or a stutter.      *)
LEMMA StepPromised == IInv /\ [Next]_vars => [Service!Next]_promised
  <1> SUFFICES ASSUME IInv, [Next]_vars, promised' # promised
               PROVE  Service!Next
    BY DEF promised
  <1>t. TypeOK /\ QueuedIsPending
    BY DEF IInv
  <1>c. \A r \in Request : ctxOf[r] \in Context
    BY TurnAssumption
  <1>f. fate \in [Request -> Fate]
    BY <1>t DEF TypeOK
  <1>p. promised' = [r \in Request |-> Promise(fate'[r])]
    BY DEF promised
  <1>u. fate' # fate
    BY DEF promised
  <1>1. ASSUME NEW r \in Request, NEW end \in {"working", "queued", "dropped",
                                               "busy", "rejected", "withdrawn"},
               fate[r] = "none", fate' = [fate EXCEPT ![r] = end]
        PROVE  /\ promised[r] = "new"
               /\ promised' = Service!Move({r}, Promise(end))
    BY <1>1, <1>f, PromiseOfEnds DEF promised, Service!Move
  <1>2. ASSUME NEW r \in Request, EnterTurn(r) PROVE Service!Next
    <2>1. fate[r] = "none" /\ fate' = [fate EXCEPT ![r] = "working"]
      BY <1>2 DEF EnterTurn, IInv, Fresh
    <2>2. promised[r] = "new" /\ promised' = Service!Move({r}, "active")
      BY <1>1, <2>1, PromiseOfEnds
    <2>3. Working(ctxOf[r]) = {}
      BY <1>2 DEF EnterTurn, IInv, WorkHasTurn, OneTurnPerContext, Working
    <2>4. Service!In(ctxOf[r], "active") = {}
      BY <2>3, <1>c, <1>t, InOf
    <2>5. Service!Begin(r)
      BY <2>2, <2>4 DEF Service!Begin, promised
    <2> QED
      BY <2>5 DEF Service!Next
  <1>3. ASSUME NEW r \in Request, EnterPreempt(r) \/ EnterDefer(r)
        PROVE  Service!Next
    <2>1. fate[r] = "none" /\ fate' = [fate EXCEPT ![r] = "queued"]
      BY <1>3 DEF EnterPreempt, EnterDefer, FastPath, IInv, Fresh
    <2>2. promised[r] = "new" /\ promised' = Service!Move({r}, "accepted")
      BY <1>1, <2>1, PromiseOfEnds
    <2>3. Service!Accept(r)
      BY <2>2 DEF Service!Accept, promised
    <2> QED
      BY <2>3 DEF Service!Next
  <1>4. ASSUME NEW r \in Request,
               Reject(r) \/ ArrivalCancelled(r) \/ EnterDrop(r) \/ EnterBusy(r)
        PROVE  Service!Next
    <2>1. fate[r] = "none" /\ \E end \in {"rejected", "withdrawn", "dropped", "busy"} :
                             fate' = [fate EXCEPT ![r] = end]
      BY <1>4 DEF Reject, ArrivalCancelled, EnterDrop, EnterBusy, FastPath,
                  IInv, Fresh
    <2>2. promised[r] = "new" /\ promised' = Service!Move({r}, "refused")
      BY <1>1, <2>1, PromiseOfEnds
    <2>3. Service!Refuse(r)
      BY <2>2 DEF Service!Refuse, promised
    <2> QED
      BY <2>3 DEF Service!Next
  <1>5. ASSUME NEW r \in Request, NEW end \in Settled, NEW next \in Fate,
               fate' = PassEnds(ctxOf[r], end, next)
        PROVE  promised' =
                 [q \in Request |->
                    IF q \in Working(ctxOf[r]) THEN Promise(end)
                    ELSE IF q \in Waiting(ctxOf[r]) THEN Promise(next)
                    ELSE promised[q]]
    <2>1. \A q \in Request :
             fate'[q] = IF ctxOf[q] = ctxOf[r] /\ fate[q] = "working" THEN end
                        ELSE IF ctxOf[q] = ctxOf[r] /\ fate[q] = "queued"
                        THEN next ELSE fate[q]
      BY <1>5, PassMoves
    <2> QED
      BY <2>1, <1>p DEF promised, Working, Waiting
  <1>6. ASSUME NEW r \in Request, RunPreempting(r) \/ DrainDeferred(r)
        PROVE  Service!Next
    <2>1. PICK end \in {"yielded", "streamed"} :
             fate' = PassEnds(ctxOf[r], end, "working")
      BY <1>6 DEF RunPreempting, DrainDeferred
    <2>2. end \in Settled /\ "working" \in Fate
          /\ Promise(end) \in {"replied", "abandoned"}
      BY PromiseOfEnds DEF Settled, Fate, Open
    <2>3. promised' = [q \in Request |->
                         IF q \in Service!In(ctxOf[r], "active")
                         THEN Promise(end)
                         ELSE IF q \in Service!In(ctxOf[r], "accepted")
                         THEN "active" ELSE promised[q]]
      BY <1>5, <2>1, <2>2, <1>c, <1>t, InOf, PromiseOfEnds
    <2>4. Waiting(ctxOf[r]) # {}
      <3>1. pending[ctxOf[r]] # <<>> /\ pending[ctxOf[r]] \in Seq(Request)
        BY <1>6, <1>c, <1>t DEF RunPreempting, DrainDeferred, TypeOK
      <3>2. 1 \in 1..Len(pending[ctxOf[r]])
        BY <3>1
      <3> QED
        BY <3>2, <1>c, <1>t DEF QueuedIsPending
    <2>5. Service!In(ctxOf[r], "accepted") # {}
      BY <2>4, <1>c, <1>t, InOf
    <2>6. Service!Continue(ctxOf[r])
      BY <2>2, <2>3, <2>5 DEF Service!Continue, promised
    <2> QED
      BY <2>6, <1>c DEF Service!Next
  <1>7. ASSUME NEW r \in Request, StopTurn(r) PROVE Service!Next
    <2>1. fate' = PassEnds(ctxOf[r], "stopped", "stopped")
      BY <1>7 DEF StopTurn
    <2>2. "stopped" \in Settled /\ "stopped" \in Fate
          /\ Promise("stopped") = "abandoned"
      BY PromiseOfEnds DEF Settled, Fate
    <2>3. promised' = [q \in Request |->
                         IF q \in Service!In(ctxOf[r], "active")
                                  \cup Service!In(ctxOf[r], "accepted")
                         THEN "abandoned" ELSE promised[q]]
      BY <1>5, <2>1, <2>2, <1>c, <1>t, InOf
    <2>4. Service!Abandon(ctxOf[r])
      BY <2>3 DEF Service!Abandon, Service!Move, promised
    <2> QED
      BY <2>4, <1>c DEF Service!Next
  <1>8. ASSUME NEW r \in Request,
               Publish(r) \/ ReportFailure(r) \/ TaskCancelled(r)
        PROVE  Service!Next
    <2>1. PICK end \in {"answered", "suppressed", "failed", "cancelled"} :
             fate' = PassEnds(ctxOf[r], end, "queued")
      <3>1. CASE Publish(r)
        BY <3>1, Zenon DEF Publish
      <3>2. CASE ReportFailure(r)
        BY <3>2, Zenon DEF ReportFailure
      <3>3. CASE TaskCancelled(r)
        BY <3>3, Zenon DEF TaskCancelled
      <3> QED
        BY <1>8, <3>1, <3>2, <3>3
    <2>2. end \in Settled /\ "queued" \in Fate
          /\ Promise(end) \in {"replied", "abandoned"}
      BY PromiseOfEnds DEF Settled, Fate, Open
    <2>3. \A q \in Waiting(ctxOf[r]) : promised[q] = "accepted"
      BY PromiseOfEnds DEF promised, Waiting
    <2>4. promised' = [q \in Request |->
                         IF q \in Service!In(ctxOf[r], "active")
                         THEN Promise(end) ELSE promised[q]]
      BY <1>5, <2>1, <2>2, <2>3, <1>c, <1>t, InOf, PromiseOfEnds
    <2>5. Service!Reply(ctxOf[r]) \/ Service!Abandon(ctxOf[r])
      BY <2>2, <2>4 DEF Service!Reply, Service!Abandon, Service!Move, promised
    <2> QED
      BY <2>5, <1>c DEF Service!Next
  <1>9. ASSUME NEW r \in Request,
               Receive(r) \/ Start(r) \/ SeeInterrupt(r) \/ StreamEnds(r)
               \/ TurnRaises(r) \/ Release(r) \/ ReleaseCancelled(r)
               \/ Cancel(r)
        PROVE  UNCHANGED fate
    BY <1>9 DEF Receive, Start, SeeInterrupt, StreamEnds, TurnRaises, Release,
                ReleaseCancelled, Cancel
  <1>10. ASSUME NEW d \in Result, Harvest(d) PROVE UNCHANGED fate
    BY <1>10 DEF Harvest
  <1>11. CASE UNCHANGED vars
    BY <1>11, <1>u DEF vars
  <1> QED
    BY <1>2, <1>3, <1>4, <1>6, <1>7, <1>8, <1>9, <1>10, <1>11, <1>u
       DEF Next, Enter, Advance

(* The executor keeps what TurnService promises the senders: one batch of  *)
(* requests at a time per conversation, nothing accepted is refused, and   *)
(* what is settled stays settled.                                          *)
THEOREM Refinement == Spec => KeepsPromise
  <1>1. Init => Service!Init
    BY InitPromised
  <1>2. IInv /\ [Next]_vars => [Service!Next]_promised
    BY StepPromised
  <1> QED
    BY <1>1, <1>2, Inductive, PTL DEF Spec, KeepsPromise, Service!Spec, promised
=============================================================================
