------------------------------ MODULE TurnService ------------------------------
(***************************************************************************)
(* What a workspace promises to the senders of requests, with the          *)
(* executor's tasks, flags and queues left out.  A request is refused,     *)
(* taken at once, or accepted for later; a conversation answers one batch  *)
(* of requests at a time; what was accepted is taken before it is answered *)
(* and is never refused; and what is settled stays settled.                *)
(***************************************************************************)
CONSTANTS Request, Context, ctxOf

VARIABLE status

In(c, s) == {r \in Request : ctxOf[r] = c /\ status[r] = s}

Move(S, to) == [r \in Request |-> IF r \in S THEN to ELSE status[r]]

Init == status = [r \in Request |-> "new"]

Accept(r) == status[r] = "new" /\ status' = Move({r}, "accepted")

Refuse(r) == status[r] = "new" /\ status' = Move({r}, "refused")

(* A new request is taken at once only when its conversation is idle.      *)
Begin(r) ==
  /\ status[r] = "new"
  /\ In(ctxOf[r], "active") = {}
  /\ status' = Move({r}, "active")

(* Everything accepted meanwhile becomes the next batch, all of it.        *)
Continue(c) ==
  /\ In(c, "accepted") # {}
  /\ \E end \in {"replied", "abandoned"} :
       status' = [r \in Request |->
                    IF r \in In(c, "active") THEN end
                    ELSE IF r \in In(c, "accepted") THEN "active"
                    ELSE status[r]]

Reply(c) == status' = Move(In(c, "active"), "replied")

(* The batch ends without an answer, and a Stop also discards what waits.  *)
Abandon(c) ==
  \/ status' = Move(In(c, "active"), "abandoned")
  \/ status' = Move(In(c, "active") \cup In(c, "accepted"), "abandoned")

Next == \/ \E r \in Request : Accept(r) \/ Refuse(r) \/ Begin(r)
        \/ \E c \in Context : Continue(c) \/ Reply(c) \/ Abandon(c)

Spec == Init /\ [][Next]_status
=============================================================================
