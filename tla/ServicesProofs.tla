---------------------------- MODULE ServicesProofs ----------------------------
(***************************************************************************)
(* Proofs about Services: each part has an inductive invariant of its own, *)
(* and every step is one of one part that leaves the others alone (but for *)
(* the pushes of the server, which fetch peer records).                    *)
(***************************************************************************)
EXTENDS Services, FiniteSetTheorems, TLAPS

(***************************************************************************)
(* The tools that reach peers, user and memory (A2ACalls).                 *)
(***************************************************************************)
\* Whether a peer has queued the task of a call without running it.
Again(c) == IF c \in queued THEN 1 ELSE 0

\* What was accepted for a call where it stands: nothing before it sends, all
\* of it is accounted for whenever it is about to send once more.
TakenInOrder(c) ==
    /\ call[c].at \in {"new", "discover", "post", "backoff"} => call[c].attempt < MaxAttempts
    /\ CallAt(c, "new") \/ CallAt(c, "discover") => taken[c] = 0 /\ broken[c] = 0
    /\ CallAt(c, "post") \/ CallAt(c, "backoff") => taken[c] <= broken[c]
    /\ CallAt(c, "answer") => /\ taken[c] <= 1 + broken[c]
                              /\ call[c].held = "queue" => c \in queued
    /\ CallAt(c, "dispatch") => taken[c] <= broken[c] + Again(c)
    /\ taken[c] <= 1 + broken[c] + Again(c)

\* A call has a result only when it is over.
RepliesAreReal ==
    /\ \A c \in Call : call[c].result = "reply" => CallAt(c, "over")
    /\ ReplyIsReal
    /\ Doing({"files"}, "request") => "files" \in effects

CallsInv ==
    /\ CallsTypeOK /\ (\A c \in Call : TakenInOrder(c)) /\ RepliesAreReal /\ FetchIsWorked

\* The workspaces of the agent are some, and this is one of them.
LEMMA OwnIsSource == Own \in Source /\ Source \subseteq Target /\ Peer \subseteq Target
  BY CallAssumption DEF Own, Target

\* No call has been made at first.
LEMMA CallsInitially == CallsInit => CallsInv
<1> SUFFICES ASSUME CallsInit PROVE CallsInv
  OBVIOUS
<1>0. Own \in Source /\ Own \in Target
  BY OwnIsSource
<1>1. CallsTypeOK
  <2>1. call \in [Call -> [at : Place, from : Source, to : Target, padded : BOOLEAN,
                          attempt : 0..MaxAttempts, late : BOOLEAN, held : {"nobody", "peer", "queue"},
                          done : BOOLEAN, result : Result]]
    BY <1>0, CallAssumption DEF CallsInit, Place, Result
  <2>2. errand \in [kind : Errand \cup {"none"}, result : Result,
                    at : {"idle", "upload", "request", "report", "over"}]
    BY DEF CallsInit, Result
  <2>3. fetches \in 0..MaxFetches
    BY CallAssumption DEF CallsInit
  <2> QED
    BY <2>1, <2>2, <2>3 DEF CallsInit, CallsTypeOK
<1>2. \A c \in Call : TakenInOrder(c)
  BY CallAssumption DEF CallsInit, TakenInOrder, CallAt, Again
<1>3. RepliesAreReal
  BY DEF CallsInit, RepliesAreReal, ReplyIsReal, CallAt, Doing
<1>4. FetchIsWorked
  <2>1. \A p \in Peer : fetching \cap {p} = {}
    BY DEF CallsInit
  <2> QED
    BY <2>1, FS_EmptySet DEF CallsInit, FetchIsWorked
<1> QED
  BY <1>1, <1>2, <1>3, <1>4 DEF CallsInv

\* What a call is.
CallRecord == [at : Place, from : Source, to : Target, padded : BOOLEAN,
               attempt : 0..MaxAttempts, late : BOOLEAN, held : {"nobody", "peer", "queue"},
               done : BOOLEAN, result : Result]

\* A step of one call keeps the invariant if what it makes of the call is in
\* order and no completed row is taken back.
LEMMA OneCallKeeps ==
  ASSUME CallsInv, NEW c \in Call, NEW k \in CallRecord,
         call[c].at # "over", call' = [call EXCEPT ![c] = k],
         row' \in [Row -> {"none", "running", "completed", "failed"}],
         \A r \in Row : row[r] = "completed" => row'[r] = "completed",
         k.result = "reply" => k.at = "over" /\ (k.done \/ row'[<<k.from, k.to>>] = "completed"),
         NEW n \in Nat, NEW b \in Nat,
         taken' = [taken EXCEPT ![c] = n], broken' = [broken EXCEPT ![c] = b],
         queued' = queued \/ queued' = queued \cup {c},
         route' \in [Peer -> Source \cup {NoSource}],
         TakenInOrder(c)',
         UNCHANGED <<viaRows, records, errands>>
  PROVE  CallsInv'
<1>1. UNCHANGED <<viaRows, known, fetching, jobs, fetches, errand, effects>>
  BY DEF records, errands
<1>2. CallsTypeOK'
  <2>1. call' \in [Call -> CallRecord] /\ taken' \in [Call -> Nat] /\ broken' \in [Call -> Nat]
        /\ queued' \in SUBSET Call
    BY DEF CallsInv, CallsTypeOK, CallRecord
  <2> QED
    BY <1>1, <2>1 DEF CallsInv, CallsTypeOK, CallRecord
<1>3. ASSUME NEW d \in Call PROVE TakenInOrder(d)'
  <2>1. CASE d = c
    BY <2>1
  <2>2. CASE d # c
    <3>1. call'[d] = call[d] /\ taken'[d] = taken[d] /\ broken'[d] = broken[d]
          /\ (d \in queued' <=> d \in queued)
      BY <2>2 DEF CallsInv, CallsTypeOK
    <3>2. TakenInOrder(d)
      BY DEF CallsInv
    <3> QED
      BY <3>1, <3>2 DEF TakenInOrder, CallAt, Again
  <2> QED
    BY <2>1, <2>2
<1>4. ASSUME NEW d \in Call, call'[d].result = "reply"
      PROVE  /\ CallAt(d, "over")'
             /\ call'[d].done \/ row'[<<call'[d].from, call'[d].to>>] = "completed"
  <2>1. CASE d = c
    BY <1>4, <2>1 DEF CallsInv, CallsTypeOK, CallAt
  <2>2. CASE d # c
    <3>1. call'[d] = call[d] /\ call[d] \in CallRecord
      BY <2>2 DEF CallsInv, CallsTypeOK, CallRecord
    <3>2. <<call[d].from, call[d].to>> \in Row
      BY <3>1 DEF CallRecord, Row
    <3> QED
      BY <1>4, <3>1, <3>2 DEF CallsInv, RepliesAreReal, ReplyIsReal, CallAt
  <2> QED
    BY <2>1, <2>2
<1>5. RepliesAreReal'
  BY <1>1, <1>4 DEF CallsInv, RepliesAreReal, ReplyIsReal, Doing
<1>6. FetchIsWorked'
  BY <1>1 DEF CallsInv, FetchIsWorked
<1> QED
  BY <1>2, <1>3, <1>5, <1>6 DEF CallsInv

\* A delegation that starts, or is refused, has sent nothing yet.
LEMMA DelegateStep ==
  ASSUME CallsInv, NEW c \in Call, NEW asked \in Source \cup {NoSource}, NEW t \in Target,
         NEW padded \in BOOLEAN, Delegate(c, asked, t, padded) \/ DelegateAsync(c, asked, t, padded)
  PROVE  CallsInv'
<1> DEFINE s == Sender(asked, t)
<1> DEFINE k(at, result) == [call[c] EXCEPT !.from = s, !.to = t, !.padded = padded, !.at = at,
                                            !.result = result]
<1>1. s \in Source
  BY OwnIsSource DEF CallsInv, CallsTypeOK, Sender
<1>2. call[c] \in CallRecord /\ call[c].at = "new" /\ taken[c] = 0 /\ broken[c] = 0
  BY DEF CallsInv, CallsTypeOK, CallRecord, TakenInOrder, CallAt, Delegate, DelegateAsync
<1>3. ASSUME NEW at \in Place, NEW result \in Result
      PROVE  /\ k(at, result) \in CallRecord
             /\ k(at, result).at = at /\ k(at, result).result = result
  <2>1. call[c] \in CallRecord
    BY <1>2
  <2>2. asked \in Source \cup {NoSource} /\ s \in Source
    BY <1>1
  <2> HIDE DEF s
  <2> QED
    BY <2>1, <2>2 DEF CallRecord
<1>4. /\ UNCHANGED <<viaRows, route, broken, queued, records, errands>>
      /\ broken' = [broken EXCEPT ![c] = 0] /\ row' \in [Row -> {"none", "running", "completed", "failed"}]
      /\ \A r \in Row : row[r] = "completed" => row'[r] = "completed"
  <2>1. /\ UNCHANGED <<viaRows, route, broken, queued, records, errands>>
        /\ UNCHANGED row \/ (row[<<s, t>>] = "none" /\ row' = [row EXCEPT ![<<s, t>>] = "running"])
    BY DEF Delegate, DelegateAsync
  <2>2. broken' = [broken EXCEPT ![c] = 0] /\ row \in [Row -> {"none", "running", "completed", "failed"}]
    BY <1>2, <2>1 DEF CallsInv, CallsTypeOK
  <2> QED
    BY <2>1, <2>2
<1>5. CASE Delegate(c, asked, t, padded)
  <2>1. PICK at \in {"over", "discover"}, result \in {"refused", "none"} :
           (at = "over") = (result = "refused") /\ call' = [call EXCEPT ![c] = k(at, result)]
    <3>1. CASE OwnWorkspace(s, t, padded)
      BY <1>5, <3>1 DEF Delegate
    <3>2. CASE ~OwnWorkspace(s, t, padded)
      BY <1>5, <3>2 DEF Delegate
    <3> QED
      BY <3>1, <3>2
  <2>2. at \in Place /\ result \in Result
    BY DEF Place, Result
  <2>3. /\ k(at, result) \in CallRecord /\ k(at, result).at = at /\ k(at, result).result = result
    BY <1>3, <2>2
  <2>4. taken' = [taken EXCEPT ![c] = 0]
    BY <1>2, <1>5 DEF CallsInv, CallsTypeOK, Delegate
  <2>5. TakenInOrder(c)'
    <3>1. k(at, result).attempt = call[c].attempt /\ k(at, result).held = call[c].held
      BY <1>2 DEF CallRecord
    <3> HIDE DEF k
    <3> QED
      BY <1>2, <1>4, <2>1, <2>3, <2>4, <3>1 DEF CallsInv, CallsTypeOK, TakenInOrder, CallAt, Again
  <2> HIDE DEF k
  <2> QED
    BY <1>2, <1>4, <2>1, <2>3, <2>4, <2>5, OneCallKeeps DEF CallsInv, CallsTypeOK
<1>6. CASE DelegateAsync(c, asked, t, padded)
  <2>1. PICK result \in {"refused", "failed", "given"} : call' = [call EXCEPT ![c] = k("over", result)]
    BY <1>6 DEF DelegateAsync
  <2>2. PICK n \in {0, 1} : taken' = [taken EXCEPT ![c] = n]
    BY <1>2, <1>6 DEF CallsInv, CallsTypeOK, DelegateAsync
  <2>3. "over" \in Place /\ result \in Result
    BY DEF Place, Result
  <2>4. /\ k("over", result) \in CallRecord /\ k("over", result).at = "over"
        /\ k("over", result).result = result
    BY <1>3, <2>3
  <2> HIDE DEF k
  <2>5. TakenInOrder(c)'
    BY <1>2, <1>4, <2>1, <2>2, <2>4 DEF CallsInv, CallsTypeOK, TakenInOrder, CallAt, Again
  <2>6. n \in Nat /\ 0 \in Nat /\ result # "reply" /\ queued' = queued
        /\ route' \in [Peer -> Source \cup {NoSource}]
    BY <1>4, <2>1, <2>2 DEF CallsInv, CallsTypeOK
  <2> QED
    BY <1>2, <1>4, <2>1, <2>2, <2>4, <2>5, <2>6, OneCallKeeps
<1> QED
  BY <1>5, <1>6

\* The steps of a call that is under way.
Proceeds(c) ==
    \/ Discovered(c) \/ Post(c) \/ PeerDoes(c) \/ Replied(c) \/ Answered(c) \/ FallsBack(c)
    \/ Breaks(c) \/ BacksOff(c) \/ BudgetSpent(c) \/ Dispatched(c) \/ Polled(c)

\* Every step of a call under way accounts for what its peer accepts.
LEMMA CallProceeds ==
  ASSUME CallsInv, NEW c \in Call, Proceeds(c)
  PROVE  CallsInv'
<1> DEFINE k == call'[c]
<1>1. /\ call[c] \in CallRecord /\ TakenInOrder(c) /\ taken[c] \in Nat /\ broken[c] \in Nat
      /\ <<call[c].from, call[c].to>> \in Row
  BY DEF CallsInv, CallsTypeOK, CallRecord, Row
<1>2. /\ row' \in [Row -> {"none", "running", "completed", "failed"}]
      /\ \A r \in Row : row[r] = "completed" => row'[r] = "completed"
      /\ UNCHANGED <<viaRows, route, records, errands>>
  <2>1. /\ UNCHANGED <<viaRows, route, records, errands>>
        /\ \/ UNCHANGED row
           \/ \E key \in Row : row[key] = "none" /\ row' = [row EXCEPT ![key] = "running"]
    BY <1>1 DEF Proceeds, Discovered, Post, PeerDoes, Replied, Answered, FallsBack, Breaks, BacksOff,
                BudgetSpent, Dispatched, Polled
  <2> QED
    BY <2>1 DEF CallsInv, CallsTypeOK
<1>3. /\ call' = [call EXCEPT ![c] = k] /\ call[c].at # "over" /\ k \in CallRecord
      /\ k.from = call[c].from /\ k.to = call[c].to
  <2>1. call \in [Call -> CallRecord] /\ call[c] \in CallRecord
    BY <1>1 DEF CallsInv, CallsTypeOK, CallRecord
  <2>2. CASE Post(c)
    <3>1. PICK h \in {"nobody", "peer", "queue"} :
            call' = [call EXCEPT ![c].at = "answer", ![c].attempt = @ + 1, ![c].held = h, ![c].done = FALSE]
      BY <2>2 DEF Post
    <3>2. k = [call[c] EXCEPT !.at = "answer", !.attempt = @ + 1, !.held = h, !.done = FALSE]
          /\ call' = [call EXCEPT ![c] = k]
      BY <2>1, <3>1
    <3>3. call[c].attempt + 1 \in 0..MaxAttempts
      BY <1>1, <2>1, <2>2, CallAssumption DEF TakenInOrder, CallAt, Post, CallRecord
    <3>4. k \in CallRecord
      <4>1. call[c] \in CallRecord /\ h \in {"nobody", "peer", "queue"}
        BY <2>1
      <4> QED
        BY <3>2, <3>3, <4>1 DEF CallRecord, Place
    <3> QED
      BY <2>1, <2>2, <3>2, <3>4 DEF Post, CallAt, CallRecord
  <2>3. CASE PeerDoes(c) \/ BudgetSpent(c)
    <3>1. k \in {[call[c] EXCEPT !.done = TRUE], [call[c] EXCEPT !.late = TRUE]}
          /\ call' = [call EXCEPT ![c] = k]
      BY <2>1, <2>3 DEF PeerDoes, BudgetSpent
    <3> QED
      BY <2>1, <2>3, <3>1 DEF PeerDoes, BudgetSpent, CallAt, CallRecord
  <2>4. ASSUME NEW to \in {"dispatch", "post", "backoff", "poll"}, Moves(c, to), call[c].at # "over"
        PROVE  /\ call' = [call EXCEPT ![c] = k] /\ k \in CallRecord
               /\ k.from = call[c].from /\ k.to = call[c].to
    <3>1. k = [call[c] EXCEPT !.at = to] /\ call' = [call EXCEPT ![c] = k]
      BY <2>1, <2>4 DEF Moves
    <3> QED
      BY <2>1, <3>1 DEF CallRecord, Place
  <2>5. ASSUME NEW result \in {"refused", "failed", "reply"}, Ends(c, result), call[c].at # "over"
        PROVE  /\ call' = [call EXCEPT ![c] = k] /\ k \in CallRecord
               /\ k.from = call[c].from /\ k.to = call[c].to
    <3>1. k = [call[c] EXCEPT !.at = "over", !.result = result] /\ call' = [call EXCEPT ![c] = k]
      BY <2>1, <2>5 DEF Ends
    <3> QED
      BY <2>1, <3>1 DEF CallRecord, Place, Result
  <2>6. CASE ~Post(c) /\ ~PeerDoes(c) /\ ~BudgetSpent(c)
    <3>1. /\ call[c].at # "over"
          /\ \/ \E to \in {"dispatch", "post", "backoff", "poll"} : Moves(c, to)
             \/ \E result \in {"refused", "failed", "reply"} : Ends(c, result)
      BY <2>6 DEF Proceeds, Discovered, Replied, Answered, FallsBack, Breaks, BacksOff, Dispatched,
                  Polled, CallAt
    <3> QED
      BY <2>4, <2>5, <3>1
  <2> QED
    BY <2>2, <2>3, <2>6
<1>4. k.result = "reply" => k.at = "over" /\ (k.done \/ row'[<<k.from, k.to>>] = "completed")
  <2>1. call[c].result = "reply" => CallAt(c, "over")
    BY DEF CallsInv, RepliesAreReal
  <2> QED
    BY <1>1, <1>2, <1>3, <2>1
       DEF CallsInv, CallsTypeOK, CallRecord, Proceeds, Discovered, Post, PeerDoes, Replied, Answered,
           FallsBack, Breaks, BacksOff, BudgetSpent, Dispatched, Polled, Moves, Ends, CallAt
<1>5. /\ \E n \in Nat, b \in Nat : taken' = [taken EXCEPT ![c] = n] /\ broken' = [broken EXCEPT ![c] = b]
      /\ queued' = queued \/ queued' = queued \cup {c}
  <2>1. taken' = [taken EXCEPT ![c] = taken[c]] \/ taken' = [taken EXCEPT ![c] = taken[c] + 1]
    BY <1>1 DEF CallsInv, CallsTypeOK, Proceeds, Discovered, Post, PeerDoes, Replied, Answered,
           FallsBack, Breaks, BacksOff, BudgetSpent, Dispatched, Polled
  <2>2. broken' = [broken EXCEPT ![c] = broken[c]] \/ broken' = [broken EXCEPT ![c] = broken[c] + 1]
    BY <1>1 DEF CallsInv, CallsTypeOK, Proceeds, Discovered, Post, PeerDoes, Replied, Answered,
           FallsBack, Breaks, BacksOff, BudgetSpent, Dispatched, Polled
  <2>3. queued' = queued \/ queued' = queued \cup {c}
    BY DEF Proceeds, Discovered, Post, PeerDoes, Replied, Answered,
           FallsBack, Breaks, BacksOff, BudgetSpent, Dispatched, Polled
  <2> QED
    BY <1>1, <2>1, <2>2, <2>3
<1>6. TakenInOrder(c)'
  <2> USE DEF CallAt, Again
  <2>0. call \in [Call -> CallRecord] /\ taken \in [Call -> Nat] /\ broken \in [Call -> Nat]
    BY DEF CallsInv, CallsTypeOK, CallRecord
  <2>1. CASE Post(c)
    <3>1. PICK h \in {"nobody", "peer", "queue"} :
            /\ call' = [call EXCEPT ![c].at = "answer", ![c].attempt = @ + 1, ![c].held = h, ![c].done = FALSE]
            /\ taken' = [taken EXCEPT ![c] = IF h = "nobody" THEN @ ELSE @ + 1]
            /\ queued' = IF h = "queue" THEN queued \cup {c} ELSE queued
      BY <2>1 DEF Post
    <3>2. call'[c].at = "answer" /\ call'[c].held = h /\ call[c].at = "post" /\ broken' = broken
      BY <2>0, <2>1, <3>1 DEF CallRecord, Post
    <3>3. taken'[c] = IF h = "nobody" THEN taken[c] ELSE taken[c] + 1
      BY <2>0, <3>1
    <3> QED
      BY <1>1, <3>1, <3>2, <3>3 DEF TakenInOrder
  <2>2. CASE Breaks(c)
    <3>1. /\ broken'[c] = broken[c] + 1 /\ taken' = taken /\ queued' = queued /\ call[c].at = "answer"
          /\ call'[c].at \in {"backoff", "over"}
          /\ call'[c].at = "backoff" => call'[c].attempt < MaxAttempts
      BY <2>0, <2>2 DEF Breaks, Moves, Ends, CallRecord
    <3> QED
      BY <1>1, <3>1 DEF TakenInOrder
  <2>3. CASE Dispatched(c)
    <3>1. /\ broken' = broken /\ queued' = queued /\ call[c].at = "dispatch"
          /\ call'[c].at \in {"poll", "over"}
          /\ taken'[c] = taken[c] \/ taken'[c] = taken[c] + 1
      BY <2>0, <2>3 DEF Dispatched, Moves, Ends, CallRecord
    <3> QED
      BY <1>1, <3>1 DEF TakenInOrder
  <2>4. CASE Discovered(c) \/ Replied(c) \/ Answered(c) \/ FallsBack(c) \/ BacksOff(c) \/ Polled(c)
    <3>1. /\ broken' = broken /\ taken' = taken /\ queued' = queued
          /\ call'[c].attempt = call[c].attempt /\ call'[c].held = call[c].held
          /\ \/ call[c].at = "discover" /\ call'[c].at \in {"dispatch", "post", "over"}
             \/ call[c].at \in {"answer", "poll"} /\ call'[c].at = "over"
             \/ call[c].at = "answer" /\ call[c].held = "queue" /\ call'[c].at = "dispatch"
             \/ call[c].at = "backoff" /\ call'[c].at = "post"
      BY <2>0, <2>4 DEF Discovered, Replied, Answered, FallsBack, BacksOff, Polled, Moves, Ends, CallRecord
    <3> QED
      BY <1>1, <3>1 DEF TakenInOrder
  <2>5. CASE PeerDoes(c) \/ BudgetSpent(c)
    <3>1. /\ broken' = broken /\ taken' = taken /\ queued' = queued
          /\ call'[c].attempt = call[c].attempt /\ call'[c].held = call[c].held
          /\ call'[c].at = call[c].at
      BY <2>0, <2>5 DEF PeerDoes, BudgetSpent, CallRecord
    <3> QED
      BY <1>1, <3>1 DEF TakenInOrder
  <2> QED
    BY <2>1, <2>2, <2>3, <2>4, <2>5 DEF Proceeds
<1>7. /\ CallsInv /\ k \in CallRecord /\ call' = [call EXCEPT ![c] = k] /\ call[c].at # "over"
      /\ row' \in [Row -> {"none", "running", "completed", "failed"}]
      /\ \A r \in Row : row[r] = "completed" => row'[r] = "completed"
      /\ k.result = "reply" => k.at = "over" /\ (k.done \/ row'[<<k.from, k.to>>] = "completed")
      /\ route' \in [Peer -> Source \cup {NoSource}]
      /\ UNCHANGED <<viaRows, records, errands>>
  BY <1>2, <1>3, <1>4 DEF CallsInv, CallsTypeOK
<1> HIDE DEF k
<1> QED
  BY <1>5, <1>6, <1>7, OneCallKeeps

\* The platform runs its rows, and peers are listed, whatever the calls do.
LEMMA RowsKeep ==
  ASSUME CallsInv, (\E r \in Row : RowEnds(r)) \/ (\E s \in Source, p \in Peer : ListPeers(s, p))
  PROVE  CallsInv'
<1>1. /\ UNCHANGED <<viaRows, call, taken, broken, queued, records, errands>>
      /\ row' \in [Row -> {"none", "running", "completed", "failed"}]
      /\ \A r \in Row : row[r] = "completed" => row'[r] = "completed"
      /\ route' \in [Peer -> Source \cup {NoSource}]
  BY DEF CallsInv, CallsTypeOK, RowEnds, ListPeers
<1>2. UNCHANGED <<known, fetching, jobs, fetches, errand, effects>>
  BY <1>1 DEF records, errands
<1>3. CallsTypeOK'
  BY <1>1, <1>2 DEF CallsInv, CallsTypeOK
<1>4. \A c \in Call : TakenInOrder(c)'
  BY <1>1 DEF CallsInv, TakenInOrder, CallAt, Again
<1>5. \A c \in Call : <<call[c].from, call[c].to>> \in Row
  BY DEF CallsInv, CallsTypeOK, Row
<1>6. RepliesAreReal'
  BY <1>1, <1>2, <1>5 DEF CallsInv, RepliesAreReal, ReplyIsReal, CallAt, Doing
<1>7. FetchIsWorked'
  BY <1>2 DEF CallsInv, FetchIsWorked
<1> QED
  BY <1>3, <1>4, <1>6, <1>7 DEF CallsInv

\* Delegations keep the invariant of the tools.
LEMMA DelegationStep == CallsInv /\ DelegationNext => CallsInv'
  BY DelegateStep, CallProceeds, RowsKeep DEF DelegationNext, Proceeds

\* A peer in the set of fetches is fetched once, one that is not, is not.
LEMMA FetchesCount ==
  ASSUME NEW S, NEW p
  PROVE  Cardinality(S \cap {p}) = IF p \in S THEN 1 ELSE 0
<1>1. S \cap {p} = IF p \in S THEN {p} ELSE {}
  OBVIOUS
<1> QED
  BY <1>1, FS_EmptySet, FS_Singleton

\* What the records of peers keep, and what a push adds to them.
LEMMA RecordsStep ==
  ASSUME CallsInv, NEW p \in Peer, Fetched(p) \/ FetchOver(p) \/ RecordGone(p) \/ Enrich(p)
  PROVE  CallsInv'
<1>1. /\ UNCHANGED <<viaRows, route, call, row, taken, broken, queued, errand, effects>>
  BY DEF Fetched, FetchOver, RecordGone, Enrich, delegation, errands
<1>2. /\ known' \in SUBSET Peer /\ fetching' \in SUBSET Peer /\ jobs' \in [Peer -> Nat]
      /\ fetches' \in 0..MaxFetches
  BY CallAssumption DEF CallsInv, CallsTypeOK, Fetched, FetchOver, RecordGone, Enrich, Submit
<1>3. CallsTypeOK'
  BY <1>1, <1>2 DEF CallsInv, CallsTypeOK
<1>4. (\A c \in Call : TakenInOrder(c)') /\ RepliesAreReal'
  BY <1>1 DEF CallsInv, TakenInOrder, CallAt, Again, RepliesAreReal, ReplyIsReal, Doing
<1>5. ASSUME NEW q \in Peer PROVE jobs'[q] = IF q \in fetching' THEN 1 ELSE 0
  <2>1. jobs[q] = IF q \in fetching THEN 1 ELSE 0
    BY FetchesCount DEF CallsInv, FetchIsWorked
  <2> QED
    BY <2>1 DEF CallsInv, CallsTypeOK, Fetched, FetchOver, RecordGone, Enrich, Submit
<1>6. FetchIsWorked'
  BY <1>5, FetchesCount DEF FetchIsWorked
<1> QED
  BY <1>3, <1>4, <1>6 DEF CallsInv

\* The tools that are one request.
ErrandInv ==
    /\ errand \in [kind : Errand \cup {"none"}, result : Result,
                   at : {"idle", "upload", "request", "report", "over"}]
    /\ effects \in SUBSET {"files", "request", "activity", "promotion"}
    /\ errand.result = "reply" =>
         "request" \in effects /\ (errand.kind = "files" => "files" \in effects)
    /\ errand.at = "request" /\ errand.kind = "files" => "files" \in effects

\* So do messages, broadcasts and the requests to memory and platform.
LEMMA ErrandsStep == CallsInv /\ ErrandsNext => CallsInv'
<1> SUFFICES ASSUME CallsInv, ErrandsNext PROVE CallsInv'
  OBVIOUS
<1>1. UNCHANGED <<viaRows, route, call, row, taken, broken, queued, known, fetching, jobs, fetches>>
  BY DEF ErrandsNext, MessageStarts, FilesStart, BroadcastStarts, PluginStarts, MemoryStarts,
         RecallStarts, HistoryStarts, InfoStarts, StatusStarts, Starts, Uploads, SendsRequest, Reads,
         CommitsMemory, ReportsMemory, Requests, delegation, records
<1>2. ErrandInv
  BY DEF CallsInv, CallsTypeOK, RepliesAreReal, ReplyIsReal, Doing, ErrandInv
<1>3. ErrandInv'
  <2>1. ASSUME NEW kind \in Errand, NEW at \in {"request", "upload"}, Starts(kind, at),
               kind = "files" => at = "upload"
        PROVE  ErrandInv'
    BY <2>1 DEF Starts, ErrandInv, Result
  <2>2. CASE Uploads
    <3>1. errand \in [kind : Errand \cup {"none"}, result : Result,
                      at : {"idle", "upload", "request", "report", "over"}]
      BY <1>2 DEF ErrandInv
    <3> QED
      BY <1>2, <2>2, <3>1 DEF Uploads, Doing, ErrandInv, Result
  <2>3. ASSUME NEW to \in {"over", "report"}, errand.at = "request", Requests(to)
        PROVE  ErrandInv'
    <3>1. errand \in [kind : Errand \cup {"none"}, result : Result,
                      at : {"idle", "upload", "request", "report", "over"}]
      BY <1>2 DEF ErrandInv
    <3> QED
      BY <1>2, <2>3, <3>1 DEF Requests, ErrandInv, Result
  <2>4. CASE ReportsMemory
    <3>1. errand \in [kind : Errand \cup {"none"}, result : Result,
                      at : {"idle", "upload", "request", "report", "over"}]
      BY <1>2 DEF ErrandInv
    <3> QED
      BY <1>2, <2>4, <3>1 DEF ReportsMemory, Doing, ErrandInv
  <2>5. CASE SendsRequest \/ Reads \/ CommitsMemory
    BY <2>3, <2>5 DEF SendsRequest, Reads, CommitsMemory, Doing
  <2>6. {"message", "files", "broadcast", "plugin", "memory", "recall", "history", "info", "status"}
          \subseteq Errand
    BY DEF Errand
  <2> QED
    BY <2>1, <2>2, <2>4, <2>5, <2>6
       DEF ErrandsNext, MessageStarts, FilesStart, BroadcastStarts, PluginStarts, MemoryStarts,
           RecallStarts, HistoryStarts, InfoStarts, StatusStarts
<1>4. CallsTypeOK'
  BY <1>1, <1>3 DEF CallsInv, CallsTypeOK, ErrandInv
<1>5. RepliesAreReal'
  BY <1>1, <1>3 DEF CallsInv, RepliesAreReal, ReplyIsReal, ErrandInv, Doing, CallAt
<1>6. (\A c \in Call : TakenInOrder(c)') /\ FetchIsWorked'
  BY <1>1 DEF CallsInv, TakenInOrder, CallAt, Again, FetchIsWorked
<1> QED
  BY <1>4, <1>5, <1>6 DEF CallsInv

\* So does a step that leaves the tools alone.
LEMMA CallsStutter == CallsInv /\ UNCHANGED calls => CallsInv'
  BY DEF calls, delegation, records, errands, CallsInv, CallsTypeOK, TakenInOrder, CallAt, Again,
         RepliesAreReal, ReplyIsReal, Doing, FetchIsWorked

\* What was accepted for a call and why.
LEMMA AcceptedHasCause == CallsInv => TwiceHasCause
  BY FetchesCount DEF CallsInv, TakenInOrder, TwiceHasCause, Again

(***************************************************************************)
(* The server of the tools (McpServer).                                    *)
(***************************************************************************)
\* An answer is queued for the stream its request names, as long as that has
\* its queue.
QueuesAreServed ==
    /\ QueueIsServed
    /\ \A s \in Stream : \A r \in queue[s] : request[r].at = "queued" /\ request[r].to = s

ServerInv ==
    /\ ServerTypeOK /\ QueuesAreServed /\ AnsweredOnce
    /\ \A r \in Request : request[r].at # "over" => answers[r] = 0

\* What a request is.
RequestRecord == [at : {"new", "running", "queued", "over"}, tool : Tools \cup {"none", "unknown"},
                  to : Stream \cup {NoStream}]

\* Nothing is asked of the server at first.
LEMMA ServerInitially == ServerInit => ServerInv
<1> SUFFICES ASSUME ServerInit PROVE ServerInv
  OBVIOUS
<1>1. ServerTypeOK
  BY DEF ServerInit, ServerTypeOK
<1>2. QueuesAreServed /\ AnsweredOnce /\ \A r \in Request : request[r].at # "over" => answers[r] = 0
  BY DEF ServerInit, QueuesAreServed, QueueIsServed, AnsweredOnce
<1> QED
  BY <1>1, <1>2 DEF ServerInv

\* A tool that runs is one of the server's.
LEMMA RanTools ==
  ASSUME ServerInv, NEW t, Runs(t)
  PROVE  ran' \in SUBSET Tools
  BY DEF ServerInv, ServerTypeOK, Runs, Allowed

\* The steps of one request that no stream takes part in.
LEMMA AsksStep ==
  ASSUME ServerInv, NEW r \in Request, NEW s \in Stream \cup {NoStream},
         NEW t \in {"none", "unknown", "delegate_task", "send_message_to_user", "list_peers"},
         Asks(r, t, s)
  PROVE  ServerInv'
<1>1. t \in Tools \cup {"none", "unknown"}
  BY DEF Tools, DelegationTools, PeerTools
<1>2. /\ request' = [request EXCEPT ![r] = [at |-> "running", tool |-> t, to |-> s]]
      /\ request[r].at = "new" /\ request \in [Request -> RequestRecord]
      /\ UNCHANGED <<transport, serving, granted, stream, registered, queue, answers, ran, named>>
  BY DEF ServerInv, ServerTypeOK, RequestRecord, Asks
<1>3. request' \in [Request -> RequestRecord]
  BY <1>1, <1>2 DEF RequestRecord
<1>4. ServerTypeOK'
  BY <1>2, <1>3 DEF ServerInv, ServerTypeOK, RequestRecord
<1>5. QueuesAreServed' /\ AnsweredOnce' /\ \A q \in Request : request'[q].at # "over" => answers'[q] = 0
  BY <1>2 DEF ServerInv, ServerTypeOK, QueuesAreServed, QueueIsServed, AnsweredOnce
<1> QED
  BY <1>4, <1>5 DEF ServerInv

\* A request is answered where it runs, and it is over then.
LEMMA AnswersStep ==
  ASSUME ServerInv, NEW r \in Request, Responds(r) \/ ToolRaises(r)
  PROVE  ServerInv'
<1>1. /\ request \in [Request -> RequestRecord] /\ answers \in [Request -> Nat]
      /\ queue \in [Stream -> SUBSET Request] /\ registered \in SUBSET Stream
      /\ request[r].at = "running" /\ answers[r] = 0
  BY DEF ServerInv, ServerTypeOK, RequestRecord, Responds, ToolRaises
<1>2. ran' \in SUBSET Tools /\ serving' \in BOOLEAN /\ UNCHANGED <<transport, granted, stream, registered, named>>
  BY RanTools DEF ServerInv, ServerTypeOK, Responds, ToolRaises
<1>3. CASE UNCHANGED <<request, answers, queue>>
  BY <1>2, <1>3 DEF ServerInv, ServerTypeOK, QueuesAreServed, QueueIsServed, AnsweredOnce
<1>4. CASE /\ request' = [request EXCEPT ![r].at = "over"] /\ answers' = [answers EXCEPT ![r] = @ + 1]
           /\ UNCHANGED queue
  <2>1. request' = [request EXCEPT ![r] = [request[r] EXCEPT !.at = "over"]] /\ request[r] \in RequestRecord
    BY <1>1, <1>4
  <2>2. request' \in [Request -> RequestRecord] /\ answers' \in [Request -> Nat]
    BY <1>1, <1>4, <2>1 DEF RequestRecord
  <2>3. ServerTypeOK'
    BY <1>2, <1>4, <2>2 DEF ServerInv, ServerTypeOK, RequestRecord
  <2>4. QueuesAreServed' /\ AnsweredOnce' /\ \A q \in Request : request'[q].at # "over" => answers'[q] = 0
    BY <1>1, <1>2, <1>4 DEF ServerInv, QueuesAreServed, QueueIsServed, AnsweredOnce, RequestRecord
  <2> QED
    BY <2>3, <2>4 DEF ServerInv
<1>5. CASE \E s \in Stream : /\ s = request[r].to /\ s \in registered
                             /\ queue' = [queue EXCEPT ![s] = @ \cup {r}]
                             /\ request' = [request EXCEPT ![r].at = "queued"] /\ UNCHANGED answers
  <2>0. PICK s \in Stream : /\ s = request[r].to /\ s \in registered
                            /\ queue' = [queue EXCEPT ![s] = @ \cup {r}]
                            /\ request' = [request EXCEPT ![r].at = "queued"] /\ UNCHANGED answers
    BY <1>5
  <2>1. request' = [request EXCEPT ![r] = [request[r] EXCEPT !.at = "queued"]] /\ request[r] \in RequestRecord
    BY <1>1, <2>0
  <2>2. request' \in [Request -> RequestRecord] /\ queue' \in [Stream -> SUBSET Request]
    BY <1>1, <2>0, <2>1 DEF RequestRecord
  <2>3. ServerTypeOK'
    BY <1>2, <2>0, <2>2 DEF ServerInv, ServerTypeOK, RequestRecord
  <2>4. /\ QueueIsServed'
        /\ \A z \in Stream : \A q \in queue'[z] : request'[q].at = "queued" /\ request'[q].to = z
    BY <1>1, <1>2, <2>0 DEF ServerInv, QueuesAreServed, QueueIsServed, RequestRecord
  <2>5. AnsweredOnce' /\ \A q \in Request : request'[q].at # "over" => answers'[q] = 0
    BY <1>1, <1>2, <2>0 DEF ServerInv, AnsweredOnce, RequestRecord
  <2> QED
    BY <2>3, <2>4, <2>5 DEF ServerInv, QueuesAreServed
<1> QED
  BY <1>1, <1>3, <1>4, <1>5 DEF Responds, ToolRaises, AnswerGoes, Room

\* A stream that ends leaves no request in its queue.
LEMMA StreamStep ==
  ASSUME ServerInv, NEW s \in Stream,
         StreamOpens(s) \/ FirstEvent(s) \/ StreamTimes(s) \/ StreamEnds(s)
  PROVE  ServerInv'
<1> DEFINE Phases == {"none", "opened", "open", "timed", "left", "over"}
<1>1. /\ request \in [Request -> RequestRecord] /\ answers \in [Request -> Nat]
      /\ queue \in [Stream -> SUBSET Request] /\ stream \in [Stream -> Phases] /\ registered \in SUBSET Stream
      /\ UNCHANGED <<transport, serving, granted, answers, ran, named>>
  BY DEF ServerInv, ServerTypeOK, RequestRecord, StreamOpens, FirstEvent, StreamTimes, StreamEnds
<1>2. CASE StreamOpens(s) \/ FirstEvent(s) \/ StreamTimes(s)
  <2>1. UNCHANGED <<request, queue>> /\ stream' \in [Stream -> Phases]
        /\ stream'[s] \in {"opened", "open", "timed", "left"} /\ stream[s] # "over"
        /\ \A z \in Stream : z # s => stream'[z] = stream[z]
    BY <1>1, <1>2 DEF StreamOpens, FirstEvent, StreamTimes
  <2>2. registered' \in SUBSET Stream /\ registered' \in {registered, registered \cup {s}}
    BY <1>1, <1>2 DEF StreamOpens, FirstEvent, StreamTimes
  <2>3. QueuesAreServed'
    BY <1>1, <2>1, <2>2 DEF ServerInv, QueuesAreServed, QueueIsServed
  <2>4. AnsweredOnce' /\ \A q \in Request : request'[q].at # "over" => answers'[q] = 0
    BY <1>1, <2>1 DEF ServerInv, AnsweredOnce
  <2> QED
    BY <1>1, <2>1, <2>2, <2>3, <2>4 DEF ServerInv, ServerTypeOK
<1>3. CASE StreamEnds(s)
  <2>1. /\ stream' = [stream EXCEPT ![s] = "over"] /\ queue' = [queue EXCEPT ![s] = {}]
        /\ registered' = registered \ {s}
        /\ request' = [r \in Request |-> IF r \in queue[s] THEN [request[r] EXCEPT !.at = "over"]
                                         ELSE request[r]]
    BY <1>3 DEF StreamEnds
  <2>2. \A r \in Request : [request[r] EXCEPT !.at = "over"] \in RequestRecord
    <3> TAKE r \in Request
    <3>1. request[r] \in RequestRecord
      BY <1>1
    <3> QED
      BY <3>1 DEF RequestRecord
  <2>3. request' \in [Request -> RequestRecord]
    BY <1>1, <2>1, <2>2
  <2>4. ServerTypeOK'
    BY <1>1, <2>1, <2>3 DEF ServerInv, ServerTypeOK, RequestRecord
  <2>5. \A r \in Request : /\ r \notin queue[s] => request'[r] = request[r]
                           /\ r \in queue[s] => request'[r].at = "over" /\ request'[r].to = s
    BY <1>1, <2>1 DEF ServerInv, QueuesAreServed, RequestRecord
  <2>6. QueuesAreServed'
    BY <1>1, <2>1, <2>5 DEF ServerInv, QueuesAreServed, QueueIsServed
  <2>7. AnsweredOnce' /\ \A q \in Request : request'[q].at # "over" => answers'[q] = 0
    BY <1>1, <2>1, <2>5 DEF ServerInv, AnsweredOnce
  <2> QED
    BY <2>4, <2>6, <2>7 DEF ServerInv
<1> QED
  BY <1>2, <1>3

\* An answer that goes by a stream leaves its queue.
LEMMA StreamsStep ==
  ASSUME ServerInv, NEW s \in Stream, NEW r \in Request, Streams(s, r)
  PROVE  ServerInv'
<1>1. /\ request \in [Request -> RequestRecord] /\ answers \in [Request -> Nat]
      /\ queue \in [Stream -> SUBSET Request]
      /\ request[r].at = "queued" /\ request[r].to = s /\ answers[r] = 0
  BY DEF ServerInv, ServerTypeOK, RequestRecord, QueuesAreServed, Streams
<1>2. /\ UNCHANGED <<transport, serving, granted, stream, registered, ran, named>>
      /\ queue' = [queue EXCEPT ![s] = @ \ {r}] /\ answers' = [answers EXCEPT ![r] = @ + 1]
      /\ request' = [request EXCEPT ![r] = [request[r] EXCEPT !.at = "over"]]
  BY <1>1 DEF Streams
<1>3. request[r] \in RequestRecord
  BY <1>1
<1>4. request' \in [Request -> RequestRecord] /\ request'[r].at = "over"
  BY <1>1, <1>2, <1>3 DEF RequestRecord
<1>5. ServerTypeOK'
  BY <1>1, <1>2, <1>4 DEF ServerInv, ServerTypeOK, RequestRecord
<1>6. QueuesAreServed'
  BY <1>1, <1>2 DEF ServerInv, QueuesAreServed, QueueIsServed
<1>7. AnsweredOnce' /\ \A q \in Request : request'[q].at # "over" => answers'[q] = 0
  BY <1>1, <1>2, <1>4 DEF ServerInv, AnsweredOnce
<1> QED
  BY <1>5, <1>6, <1>7 DEF ServerInv

\* Every step of the server keeps its invariant, and the tools' when a push
\* fetches a peer record.
LEMMA ServerStep == CallsInv /\ ServerInv /\ ServerNext => CallsInv' /\ ServerInv'
<1> SUFFICES ASSUME CallsInv, ServerInv, ServerNext PROVE CallsInv' /\ ServerInv'
  OBVIOUS
<1>1. ASSUME NEW p \in Peer, Pushes(p) PROVE CallsInv' /\ ServerInv'
  <2>1. CallsInv'
    BY <1>1, CallsStutter, RecordsStep DEF Pushes
  <2>2. UNCHANGED <<transport, serving, granted, request, stream, registered, queue, answers, ran>>
        /\ named' \in {"nobody", "bare", "named"}
    BY <1>1 DEF Pushes
  <2> QED
    BY <2>1, <2>2 DEF ServerInv, ServerTypeOK, QueuesAreServed, QueueIsServed, AnsweredOnce
<1>2. CASE NotAnObject /\ UNCHANGED calls
  <2>1. /\ UNCHANGED <<transport, granted, request, stream, registered, queue, answers, ran, named>>
        /\ serving' = FALSE
    BY <1>2 DEF NotAnObject
  <2>2. ServerTypeOK'
    BY <2>1 DEF ServerInv, ServerTypeOK
  <2>3. /\ QueuesAreServed' /\ AnsweredOnce'
        /\ \A r \in Request : request'[r].at # "over" => answers'[r] = 0
    BY <2>1 DEF ServerInv, QueuesAreServed, QueueIsServed, AnsweredOnce
  <2> QED
    BY <1>2, <2>2, <2>3, CallsStutter DEF ServerInv
<1> QED
  BY <1>1, <1>2, CallsStutter, AsksStep, AnswersStep, StreamStep, StreamsStep DEF ServerNext

\* So does a step that leaves the server alone.
LEMMA ServerStutters == ServerInv /\ UNCHANGED server => ServerInv'
  BY DEF server, ServerInv, ServerTypeOK, QueuesAreServed, QueueIsServed, AnsweredOnce

(***************************************************************************)
(* Approvals, pauses and scripts (Oversight).                              *)
(***************************************************************************)
\* A role that was read from the configuration lets gated tools through.
Bypassed == policy.config # "unread" /\ HeldRoles(policy.config) \cap policy.bypass # {}

\* How often a gated tool has run, and why, where its call stands.
RunsCounted(g) ==
    /\ gate[g] = "new" => runs[g] = 0 /\ g \notin raised
    /\ gate[g] \notin {"new", "over"} => runs[g] = IF g \in raised THEN 1 ELSE 0
    /\ gate[g] \in {"new", "ask", "create"} => decision[g] = "none"
    /\ gate[g] = "granted" => decision[g] = "approved"
    /\ g \in raised => Bypassed
    /\ \/ runs[g] = 0
       \/ runs[g] = 1 /\ (Bypassed \/ decision[g] = "approved")
       \/ runs[g] = 2 /\ g \in raised /\ Bypassed /\ decision[g] = "approved"

\* An entry of the registry is of a call that waits for this task.
EntriesWait ==
    \A t \in Task : entry[t] # NoPause =>
        entry[t] \in Pause /\ pause[entry[t]].at = "waiting" /\ pause[entry[t]].task = t

\* A call that waits for its process has the conversation's place for it, unless
\* another call took it; and nobody waits for one that has ended or is not begun.
HandlesHeld ==
    \A s \in Script :
        /\ script[s].at \in {"running", "killing"} /\ script[s].inTurn => current = s \/ s \in displaced
        /\ script[s].at \in {"new", "ending"} => script[s].child # "alive"
        /\ script[s].at = "over" /\ script[s].child = "alive" => script[s].abandoned

OversightInv ==
    /\ OversightTypeOK /\ (\A g \in Gated : RunsCounted(g))
    /\ EntriesWait /\ WaiterIsListed
    /\ HandlesHeld /\ ChildIsHeld

\* The kinds of the variables that are records.
PauseRecord == [at : {"new", "waiting", "over"}, task : Task, set : BOOLEAN, woken : BOOLEAN]
ScriptRecord == [at : {"new", "running", "killing", "ending", "over"},
                 child : {"none", "alive", "rest", "dead"}, inTurn : BOOLEAN, abandoned : BOOLEAN]
Policies == [roles : Roles, bypass : Roles, config : {"unread", "read", "lost"}, websocket : BOOLEAN]

\* Nothing is gated, paused or run at first.
LEMMA OversightInitially == OversightInit => OversightInv
<1> SUFFICES ASSUME OversightInit PROVE OversightInv
  OBVIOUS
<1>1. OversightTypeOK
  <2>1. pause \in [Pause -> PauseRecord]
    BY DEF OversightInit, PauseRecord
  <2>2. script \in [Script -> ScriptRecord]
    BY DEF OversightInit, ScriptRecord
  <2>3. policy \in Policies
    BY DEF OversightInit, Policies
  <2> QED
    BY <2>1, <2>2, <2>3 DEF OversightInit, OversightTypeOK, PauseRecord, ScriptRecord, Policies
<1>2. \A g \in Gated : RunsCounted(g)
  BY DEF OversightInit, RunsCounted
<1>3. EntriesWait /\ WaiterIsListed
  BY DEF OversightInit, EntriesWait, WaiterIsListed
<1>4. HandlesHeld /\ ChildIsHeld
  BY DEF OversightInit, HandlesHeld, ChildIsHeld
<1> QED
  BY <1>1, <1>2, <1>3, <1>4 DEF OversightInv

\* Which roles are held does not change any more once the configuration was
\* looked for.
LEMMA ConfigIsReadOnce ==
  ASSUME OversightInv, NEW config, ReadsConfig(config)
  PROVE  /\ policy' \in Policies /\ policy'.config # "unread"
         /\ policy'.websocket = policy.websocket /\ policy'.bypass = policy.bypass
         /\ (Bypassed => Bypassed')
         /\ (HeldRoles(config) \cap policy.bypass # {} => Bypassed')
<1>1. policy \in Policies
  BY DEF OversightInv, OversightTypeOK, Policies
<1>2. /\ policy' = [policy EXCEPT !.config = config] /\ config \in {"unread", "read", "lost"}
      /\ config # "unread" /\ (policy.config # "unread" => config = policy.config)
  BY <1>1 DEF ReadsConfig, Policies
<1>3. /\ policy' \in Policies /\ policy'.config = config /\ policy'.roles = policy.roles
      /\ policy'.bypass = policy.bypass /\ policy'.websocket = policy.websocket
  BY <1>1, <1>2 DEF Policies
<1> QED
  BY <1>2, <1>3 DEF Bypassed, HeldRoles

\* A step of one gated call.
LEMMA GateKeeps ==
  ASSUME OversightInv, NEW g \in Gated,
         policy' \in Policies, Bypassed => Bypassed',
         NEW at \in {"new", "ask", "create", "connect", "listen", "poll", "granted", "over"},
         gate' = [gate EXCEPT ![g] = at],
         NEW d \in {"none", "pending", "approved", "denied"}, decision' = [decision EXCEPT ![g] = d],
         NEW n \in Nat, runs' = [runs EXCEPT ![g] = n],
         raised' = raised \/ raised' = raised \cup {g},
         RunsCounted(g)', UNCHANGED <<news, pauses, scripts>>
  PROVE  OversightInv'
<1>1. UNCHANGED <<news, pause, entry, resumed, script, current, watched, displaced>>
  BY DEF pauses, scripts
<1>2. OversightTypeOK'
  BY <1>1 DEF OversightInv, OversightTypeOK, Policies
<1>3. ASSUME NEW h \in Gated PROVE RunsCounted(h)'
  <2>1. CASE h # g
    <3>1. /\ gate'[h] = gate[h] /\ decision'[h] = decision[h] /\ runs'[h] = runs[h]
          /\ (h \in raised' <=> h \in raised)
      BY <2>1 DEF OversightInv, OversightTypeOK
    <3>2. RunsCounted(h)
      BY DEF OversightInv
    <3> HIDE DEF Bypassed
    <3> QED
      BY <3>1, <3>2 DEF RunsCounted
  <2> QED
    BY <2>1
<1>4. EntriesWait' /\ WaiterIsListed' /\ HandlesHeld' /\ ChildIsHeld'
  BY <1>1 DEF OversightInv, EntriesWait, WaiterIsListed, HandlesHeld, ChildIsHeld
<1> QED
  BY <1>2, <1>3, <1>4 DEF OversightInv

\* The gate of a tool: it runs for a role that bypasses it, or it is refused,
\* or it asks.
LEMMA CallGatedStep ==
  ASSUME OversightInv, NEW g \in Gated, CallGated(g)
  PROVE  OversightInv'
<1>1. /\ RunsCounted(g) /\ gate[g] = "new" /\ runs \in [Gated -> Nat]
      /\ decision \in [Gated -> {"none", "pending", "approved", "denied"}]
      /\ gate \in [Gated -> {"new", "ask", "create", "connect", "listen", "poll", "granted", "over"}]
      /\ UNCHANGED <<decision, news, pauses, scripts>> /\ decision' = [decision EXCEPT ![g] = decision[g]]
      /\ runs[g] = 0 /\ decision[g] = "none" /\ policy \in Policies
      /\ runs = [runs EXCEPT ![g] = 0]
  BY DEF OversightInv, OversightTypeOK, CallGated, RunsCounted, Policies
<1>2. PICK config \in {"unread", "read", "lost"} :
          IF policy.bypass = {}
          THEN config = policy.config /\ policy' = policy /\ Steps(g, "ask") /\ UNCHANGED <<runs, raised>>
          ELSE /\ ReadsConfig(config)
               /\ IF HeldRoles(config) \cap policy.bypass # {}
                  THEN /\ Run(g)
                       /\ \/ Steps(g, "over") /\ UNCHANGED raised
                          \/ Steps(g, "ask") /\ raised' = raised \cup {g}
                  ELSE Steps(g, "ask") /\ UNCHANGED <<runs, raised>>
  BY DEF CallGated
<1>3. policy' \in Policies /\ (Bypassed => Bypassed')
  <2>1. CASE policy.bypass = {}
    BY <1>1, <1>2, <2>1 DEF Bypassed, HeldRoles
  <2>2. CASE policy.bypass # {}
    BY <1>2, <2>2, ConfigIsReadOnce
  <2> QED
    BY <2>1, <2>2
<1>4. CASE Steps(g, "ask") /\ UNCHANGED <<runs, raised>>
  <2>1. /\ gate'[g] = "ask" /\ gate' = [gate EXCEPT ![g] = "ask"] /\ runs'[g] = 0 /\ decision'[g] = "none"
        /\ g \notin raised'
    BY <1>1, <1>4 DEF Steps, RunsCounted
  <2>2. RunsCounted(g)'
    BY <2>1 DEF RunsCounted
  <2> QED
    BY <1>1, <1>3, <1>4, <2>1, <2>2, GateKeeps
<1>5. CASE Run(g) /\ policy.bypass # {} /\ ReadsConfig(config) /\ HeldRoles(config) \cap policy.bypass # {}
  <2>1. Bypassed'
    BY <1>5, ConfigIsReadOnce
  <2>2. runs' = [runs EXCEPT ![g] = 1] /\ runs'[g] = 1
    BY <1>1, <1>5 DEF Run
  <2>3. PICK at \in {"ask", "over"} : /\ gate' = [gate EXCEPT ![g] = at] /\ gate'[g] = at
                                      /\ (at = "over" => raised' = raised)
                                      /\ (at = "ask" => raised' = raised \cup {g})
    BY <1>1, <1>2, <1>5 DEF Steps
  <2>4. RunsCounted(g)'
    BY <1>1, <2>1, <2>2, <2>3 DEF RunsCounted
  <2> QED
    BY <1>1, <1>3, <2>2, <2>3, <2>4, GateKeeps
<1> QED
  BY <1>2, <1>4, <1>5

\* A tool that asks runs only once it is granted.
LEMMA AskApprovalStep ==
  ASSUME OversightInv, NEW g \in Gated, AskApproval(g)
  PROVE  OversightInv'
<1>1. /\ RunsCounted(g) /\ gate[g] = "ask" /\ decision[g] = "none" /\ runs[g] \in Nat
      /\ gate \in [Gated -> {"new", "ask", "create", "connect", "listen", "poll", "granted", "over"}]
      /\ UNCHANGED <<decision, news, runs, raised, pauses, scripts>>
      /\ decision' = [decision EXCEPT ![g] = decision[g]] /\ runs' = [runs EXCEPT ![g] = runs[g]]
  BY DEF OversightInv, OversightTypeOK, AskApproval, RunsCounted
<1>2. PICK config \in {"read", "lost"}, at \in {"create", "over"} :
          ReadsConfig(config) /\ gate' = [gate EXCEPT ![g] = at]
  BY DEF AskApproval, Steps
<1>3. policy' \in Policies /\ (Bypassed => Bypassed')
  BY <1>2, ConfigIsReadOnce
<1>4. RunsCounted(g)'
  <2> HIDE DEF Bypassed
  <2> QED
    BY <1>1, <1>2, <1>3 DEF RunsCounted
<1> QED
  BY <1>1, <1>2, <1>3, <1>4, GateKeeps

\* The other steps of a call leave what it goes by.
LEMMA GateProceeds ==
  ASSUME OversightInv, NEW g \in Gated,
         CreateApproval(g) \/ Connects(g) \/ Hears(g) \/ StopsListening(g) \/ PollsDecision(g)
         \/ RunsGranted(g)
  PROVE  OversightInv'
<1>1. /\ RunsCounted(g) /\ runs \in [Gated -> Nat]
      /\ decision \in [Gated -> {"none", "pending", "approved", "denied"}]
      /\ gate \in [Gated -> {"new", "ask", "create", "connect", "listen", "poll", "granted", "over"}]
      /\ policy \in Policies /\ UNCHANGED <<policy, news, raised, pauses, scripts>>
  BY DEF OversightInv, OversightTypeOK, Policies, CreateApproval, Connects, Hears, StopsListening,
         PollsDecision, RunsGranted
<1>2. Bypassed' = Bypassed
  BY <1>1 DEF Bypassed, HeldRoles
<1>3. CASE CreateApproval(g)
  <2>1. PICK at \in {"connect", "poll", "over"}, d \in {"none", "pending"} :
          /\ gate' = [gate EXCEPT ![g] = at] /\ decision' = [decision EXCEPT ![g] = d]
          /\ gate[g] = "create" /\ UNCHANGED runs
    <3>1. gate[g] = "create" /\ decision[g] = "none"
      BY <1>1, <1>3 DEF CreateApproval, RunsCounted
    <3> QED
      BY <1>1, <1>3, <3>1 DEF CreateApproval, Steps
  <2>2. runs' = [runs EXCEPT ![g] = runs[g]] /\ runs[g] \in Nat
    BY <1>1, <2>1
  <2>3. RunsCounted(g)'
    BY <1>1, <1>2, <2>1 DEF RunsCounted
  <2> QED
    BY <1>1, <1>2, <2>1, <2>2, <2>3, GateKeeps
<1>4. CASE Connects(g) \/ Hears(g) \/ StopsListening(g) \/ PollsDecision(g)
  <2>1. PICK at \in {"listen", "poll", "granted", "over"} :
          /\ gate' = [gate EXCEPT ![g] = at] /\ UNCHANGED <<runs, decision>>
          /\ gate[g] \in {"connect", "listen", "poll"} /\ (at = "granted" => decision[g] = "approved")
    BY <1>4 DEF Connects, Hears, StopsListening, PollsDecision, Steps
  <2>2. /\ runs' = [runs EXCEPT ![g] = runs[g]] /\ runs[g] \in Nat
        /\ decision' = [decision EXCEPT ![g] = decision[g]]
    BY <1>1, <2>1
  <2>3. RunsCounted(g)'
    BY <1>1, <1>2, <2>1 DEF RunsCounted
  <2> QED
    BY <1>1, <1>2, <2>1, <2>2, <2>3, GateKeeps
<1>5. CASE RunsGranted(g)
  <2>1. /\ gate' = [gate EXCEPT ![g] = "over"] /\ gate[g] = "granted" /\ UNCHANGED decision
        /\ runs' = [runs EXCEPT ![g] = runs[g] + 1] /\ runs[g] + 1 \in Nat
        /\ decision' = [decision EXCEPT ![g] = decision[g]]
    BY <1>1, <1>5 DEF RunsGranted, Run, Steps
  <2>2. RunsCounted(g)'
    BY <1>1, <1>2, <2>1 DEF RunsCounted
  <2> QED
    BY <1>1, <1>2, <2>1, <2>2, GateKeeps
<1> QED
  BY <1>3, <1>4, <1>5

\* A person's decision is of a request that is pending.
LEMMA DecideStep ==
  ASSUME OversightInv, NEW g \in Gated, NEW verdict \in {"approved", "denied"}, Decide(g, verdict)
  PROVE  OversightInv'
<1>1. /\ decision \in [Gated -> {"none", "pending", "approved", "denied"}]
      /\ decision' = [decision EXCEPT ![g] = verdict] /\ decision[g] = "pending"
      /\ UNCHANGED <<policy, gate, runs, raised, pause, entry, resumed, script, current, watched, displaced>>
  BY DEF OversightInv, OversightTypeOK, Decide, pauses, scripts
<1>2. news' \in [Gated -> SUBSET Gated]
  BY DEF OversightInv, OversightTypeOK, Decide
<1>3. OversightTypeOK'
  BY <1>1, <1>2 DEF OversightInv, OversightTypeOK
<1>4. Bypassed' = Bypassed
  BY <1>1 DEF Bypassed, HeldRoles
<1>5. ASSUME NEW h \in Gated PROVE RunsCounted(h)'
  <2>1. RunsCounted(h) /\ decision'[h] = IF h = g THEN verdict ELSE decision[h]
    BY <1>1 DEF OversightInv
  <2> QED
    BY <1>1, <1>4, <2>1 DEF RunsCounted
<1>6. EntriesWait' /\ WaiterIsListed' /\ HandlesHeld' /\ ChildIsHeld'
  BY <1>1 DEF OversightInv, EntriesWait, WaiterIsListed, HandlesHeld, ChildIsHeld
<1> QED
  BY <1>3, <1>5, <1>6 DEF OversightInv

\* Gated tools keep the invariant of the oversight.
LEMMA GatesStep == OversightInv /\ GatesNext => OversightInv'
  BY CallGatedStep, AskApprovalStep, GateProceeds, DecideStep DEF GatesNext

\* A pause, a resume or an end leaves the registry in order.
PausesInOrder ==
    /\ pause \in [Pause -> PauseRecord] /\ entry \in [Task -> Pause \cup {NoPause}]
    /\ resumed \in SUBSET Pause /\ EntriesWait /\ WaiterIsListed

\* A pause that starts is listed, and one it displaces has a later one of its task.
LEMMA PauseTaskStep ==
  ASSUME PausesInOrder, NEW p \in Pause, NEW t \in Task, PauseTask(p, t)
  PROVE  PausesInOrder'
<1>1. /\ pause[p] \in PauseRecord /\ pause[p].at = "new" /\ UNCHANGED resumed
      /\ pause' = [pause EXCEPT ![p] = [pause[p] EXCEPT !.at = "waiting", !.task = t]]
      /\ entry' = [entry EXCEPT ![t] = p]
  BY DEF PausesInOrder, PauseTask
<1>2. [pause[p] EXCEPT !.at = "waiting", !.task = t] \in PauseRecord
  BY <1>1 DEF PauseRecord
<1>3. /\ pause' \in [Pause -> PauseRecord] /\ pause'[p].at = "waiting" /\ pause'[p].task = t
      /\ \A q \in Pause \ {p} : pause'[q] = pause[q]
      /\ entry'[t] = p /\ \A u \in Task \ {t} : entry'[u] = entry[u]
      /\ entry' \in [Task -> Pause \cup {NoPause}]
  BY <1>1, <1>2 DEF PausesInOrder, PauseRecord
<1>4. EntriesWait'
  BY <1>1, <1>3 DEF PausesInOrder, EntriesWait
<1>5. ASSUME NEW q \in Pause, pause'[q].at = "waiting", entry'[pause'[q].task] # q
      PROVE  \E z \in Pause \ {q} : pause'[z].at # "new" /\ pause'[z].task = pause'[q].task
  <2>1. q # p
    BY <1>3, <1>5
  <2>2. CASE pause[q].task = t
    BY <1>3, <2>1, <2>2
  <2>3. CASE pause[q].task # t
    <3>1. pause'[q] = pause[q] /\ pause[q].task \in Task
      BY <1>3, <2>1 DEF PausesInOrder, PauseRecord
    <3>2. PICK z \in Pause \ {q} : pause[z].at # "new" /\ pause[z].task = pause[q].task
      BY <1>3, <1>5, <2>3, <3>1 DEF PausesInOrder, WaiterIsListed
    <3>3. z # p
      BY <1>1, <3>2
    <3> QED
      BY <1>3, <3>1, <3>2, <3>3
  <2> QED
    BY <2>2, <2>3
<1>6. WaiterIsListed'
  BY <1>3, <1>4, <1>5, OversightAssumption DEF WaiterIsListed, EntriesWait
<1> QED
  BY <1>1, <1>3, <1>4, <1>6 DEF PausesInOrder

\* What is resumed is what is listed for the task.
LEMMA ResumeTaskStep ==
  ASSUME PausesInOrder, NEW t \in Task, ResumeTask(t)
  PROVE  PausesInOrder'
<1>1. /\ entry[t] \in Pause /\ UNCHANGED entry /\ resumed' \in SUBSET Pause
      /\ pause' = [pause EXCEPT ![entry[t]] = [pause[entry[t]] EXCEPT !.set = TRUE]]
  BY DEF PausesInOrder, ResumeTask
<1>2. pause[entry[t]] \in PauseRecord
  BY <1>1 DEF PausesInOrder
<1>3. /\ pause' \in [Pause -> PauseRecord]
      /\ \A q \in Pause : pause'[q].at = pause[q].at /\ pause'[q].task = pause[q].task
  BY <1>1, <1>2 DEF PausesInOrder, PauseRecord
<1>4. EntriesWait'
  BY <1>1, <1>3 DEF PausesInOrder, EntriesWait
<1>5. WaiterIsListed'
  BY <1>1, <1>3, <1>4 DEF PausesInOrder, EntriesWait, WaiterIsListed
<1> QED
  BY <1>1, <1>3, <1>4, <1>5 DEF PausesInOrder

\* A pause that ends takes only its own entry.
LEMMA EndsPauseStep ==
  ASSUME PausesInOrder, NEW p \in Pause, NEW woken \in BOOLEAN, pause[p].at = "waiting",
         EndsPause(p, woken), UNCHANGED resumed
  PROVE  PausesInOrder'
<1> DEFINE t == pause[p].task
<1>1. /\ pause[p] \in PauseRecord /\ t \in Task
      /\ pause' = [pause EXCEPT ![p] = [pause[p] EXCEPT !.at = "over", !.woken = woken]]
      /\ entry' = [entry EXCEPT ![t] = NoPause]
  BY DEF PausesInOrder, PauseRecord, EndsPause
<1>2. [pause[p] EXCEPT !.at = "over", !.woken = woken] \in PauseRecord
  BY <1>1 DEF PauseRecord
<1>3. /\ pause' \in [Pause -> PauseRecord] /\ pause'[p].at = "over" /\ pause'[p].task = t
      /\ \A q \in Pause \ {p} : pause'[q] = pause[q]
      /\ entry'[t] = NoPause /\ \A u \in Task \ {t} : entry'[u] = entry[u]
      /\ entry' \in [Task -> Pause \cup {NoPause}]
  BY <1>1, <1>2 DEF PausesInOrder, PauseRecord
<1>4. EntriesWait'
  BY <1>3 DEF PausesInOrder, EntriesWait
<1>5. ASSUME NEW q \in Pause, pause'[q].at = "waiting", entry'[pause'[q].task] # q
      PROVE  \E z \in Pause \ {q} : pause'[z].at # "new" /\ pause'[z].task = pause'[q].task
  <2>1. q # p /\ pause'[q] = pause[q] /\ pause[q].task \in Task
    BY <1>3, <1>5 DEF PausesInOrder, PauseRecord
  <2>2. CASE pause[q].task = t
    BY <1>3, <2>1, <2>2
  <2>3. CASE pause[q].task # t
    <3>1. PICK z \in Pause \ {q} : pause[z].at # "new" /\ pause[z].task = pause[q].task
      BY <1>3, <1>5, <2>1, <2>3 DEF PausesInOrder, WaiterIsListed
    <3> QED
      BY <1>3, <2>1, <3>1
  <2> QED
    BY <2>2, <2>3
<1>6. WaiterIsListed'
  BY <1>3, <1>4, <1>5 DEF WaiterIsListed, EntriesWait
<1> QED
  BY <1>3, <1>4, <1>6 DEF PausesInOrder

\* Pauses keep the invariant of the oversight.
LEMMA PausesStep == OversightInv /\ PausesNext => OversightInv'
<1> SUFFICES ASSUME OversightInv, PausesNext PROVE OversightInv'
  OBVIOUS
<1>1. UNCHANGED <<policy, gate, decision, news, runs, raised, script, current, watched, displaced>>
  BY DEF PausesNext, PauseTask, ResumeTask, Wakes, PauseExpires, gates, scripts
<1>2. PausesInOrder
  BY DEF PausesInOrder, OversightInv, OversightTypeOK, PauseRecord
<1>3. PausesInOrder'
  <2>1. ASSUME NEW p \in Pause, Wakes(p) \/ PauseExpires(p) PROVE PausesInOrder'
    BY <1>2, <2>1, EndsPauseStep DEF Wakes, PauseExpires
  <2> QED
    BY <1>2, <2>1, PauseTaskStep, ResumeTaskStep DEF PausesNext
<1>4. OversightTypeOK'
  BY <1>1, <1>3 DEF OversightInv, OversightTypeOK, PausesInOrder, PauseRecord
<1>5. (\A g \in Gated : RunsCounted(g)') /\ HandlesHeld' /\ ChildIsHeld'
  BY <1>1 DEF OversightInv, RunsCounted, Bypassed, HeldRoles, HandlesHeld, ChildIsHeld
<1> QED
  BY <1>3, <1>4, <1>5 DEF OversightInv, PausesInOrder

\* A step of one script, and of the conversation's place, keeps the invariant if
\* who loses the place has ended or is displaced by another.
LEMMA ScriptKeeps ==
  ASSUME OversightInv, NEW s \in Script, NEW k \in ScriptRecord,
         script' = [script EXCEPT ![s] = k],
         k.at \in {"running", "killing"} /\ k.inTurn => current' = s \/ s \in displaced',
         k.at \in {"new", "ending"} => k.child # "alive",
         k.at = "over" /\ k.child = "alive" => k.abandoned,
         displaced' \in SUBSET Script, displaced \subseteq displaced',
         \A z \in Script \ {s} : current = z => current' = z \/ z \in displaced',
         \/ current' = NoScript
         \/ current' = s /\ k.at \in {"running", "killing", "ending"}
         \/ current' = current /\ current # s,
         watched' \in Script \cup {NoScript},
         UNCHANGED <<gates, pauses>>
  PROVE  OversightInv'
<1>1. UNCHANGED <<policy, gate, decision, news, runs, raised, pause, entry, resumed>>
  BY DEF gates, pauses
<1>2. script \in [Script -> ScriptRecord] /\ current \in Script \cup {NoScript}
  BY DEF OversightInv, OversightTypeOK, ScriptRecord
<1>3. script' \in [Script -> ScriptRecord] /\ script'[s] = k /\ current' \in Script \cup {NoScript}
      /\ \A z \in Script \ {s} : script'[z] = script[z]
  BY <1>2
<1>4. OversightTypeOK'
  BY <1>1, <1>3 DEF OversightInv, OversightTypeOK, ScriptRecord
<1>5. HandlesHeld'
  BY <1>3 DEF OversightInv, HandlesHeld
<1>6. ChildIsHeld'
  <2>1. ASSUME NEW z \in Script, script'[z].child = "alive"
        PROVE  current' = z \/ script'[z].abandoned \/ ~script'[z].inTurn \/ z \in displaced'
    <3>1. script'[z].at \in {"new", "running", "killing", "ending", "over"}
      BY <1>3 DEF ScriptRecord
    <3> QED
      BY <1>5, <2>1, <3>1 DEF HandlesHeld
  <2>2. current' # NoScript => script'[current'].at \in {"running", "killing", "ending"}
    <3>1. CASE current' = s /\ k.at \in {"running", "killing", "ending"}
      BY <1>3, <3>1
    <3>2. CASE current' = current /\ current # s /\ current # NoScript
      BY <1>2, <1>3, <3>2 DEF OversightInv, ChildIsHeld
    <3> QED
      BY <3>1, <3>2
  <2> QED
    BY <2>1, <2>2 DEF ChildIsHeld
<1>7. (\A g \in Gated : RunsCounted(g)') /\ EntriesWait' /\ WaiterIsListed'
  BY <1>1 DEF OversightInv, RunsCounted, Bypassed, HeldRoles, EntriesWait, WaiterIsListed
<1> QED
  BY <1>4, <1>5, <1>6, <1>7 DEF OversightInv

\* A call of run_code begins, goes on, and ends.
LEMMA RunsCodeStep ==
  ASSUME OversightInv, NEW s \in Script, RunsCode(s)
  PROVE  OversightInv'
<1>1. /\ script \in [Script -> ScriptRecord] /\ script[s] \in ScriptRecord /\ script[s].at = "new"
      /\ script[s].child # "alive"
      /\ current \in Script \cup {NoScript} /\ displaced \in SUBSET Script /\ NoScript \notin Script
      /\ watched \in Script \cup {NoScript} /\ (current # NoScript => current # s)
      /\ UNCHANGED <<watched, gates, pauses>>
  BY OversightAssumption
     DEF OversightInv, OversightTypeOK, ScriptRecord, HandlesHeld, ChildIsHeld, RunsCode
<1>2. CASE \E inTurn \in BOOLEAN :
             /\ script' = [script EXCEPT ![s] = [@ EXCEPT !.at = "running", !.child = "alive", !.inTurn = inTurn]]
             /\ current' = IF inTurn THEN s ELSE current
             /\ displaced' = IF inTurn THEN (displaced \cup {current}) \ {NoScript} ELSE displaced
  <2>0. PICK inTurn \in BOOLEAN :
             /\ script' = [script EXCEPT ![s] = [@ EXCEPT !.at = "running", !.child = "alive", !.inTurn = inTurn]]
             /\ current' = IF inTurn THEN s ELSE current
             /\ displaced' = IF inTurn THEN (displaced \cup {current}) \ {NoScript} ELSE displaced
    BY <1>2
  <2> DEFINE k == [script[s] EXCEPT !.at = "running", !.child = "alive", !.inTurn = inTurn]
  <2>1. k \in ScriptRecord /\ k.at = "running" /\ k.inTurn = inTurn /\ script' = [script EXCEPT ![s] = k]
    BY <1>1, <2>0 DEF ScriptRecord
  <2>2. /\ displaced' \in SUBSET Script /\ displaced \subseteq displaced'
        /\ \A z \in Script \ {s} : current = z => current' = z \/ z \in displaced'
        /\ current' = s \/ (current' = current /\ (current = NoScript \/ current # s))
        /\ (inTurn => current' = s)
    BY <1>1, <2>0
  <2> HIDE DEF k
  <2> QED
    BY <1>1, <2>1, <2>2, ScriptKeeps
<1>3. CASE script' = [script EXCEPT ![s].at = "over"] /\ UNCHANGED <<current, displaced>>
  <2> DEFINE k == [script[s] EXCEPT !.at = "over"]
  <2>1. /\ k \in ScriptRecord /\ k.at = "over" /\ k.child # "alive"
        /\ script' = [script EXCEPT ![s] = k]
    BY <1>1, <1>3 DEF ScriptRecord
  <2> HIDE DEF k
  <2> QED
    BY <1>1, <1>3, <2>1, ScriptKeeps
<1> QED
  BY <1>2, <1>3 DEF RunsCode

\* What becomes of a process while its call waits for it, and of a call that is
\* about to give the place up.
LEMMA ScriptProceeds ==
  ASSUME OversightInv, NEW s \in Script,
         LeaderEnds(s) \/ CodeEnds(s) \/ CodeExpires(s) \/ Terminates(s)
  PROVE  OversightInv'
<1>1. /\ script \in [Script -> ScriptRecord] /\ script[s] \in ScriptRecord
      /\ current \in Script \cup {NoScript} /\ displaced \in SUBSET Script
      /\ watched \in Script \cup {NoScript}
      /\ UNCHANGED <<current, watched, displaced, gates, pauses>>
      /\ script[s].at \in {"running", "killing"} /\ script[s].inTurn => current = s \/ s \in displaced
      /\ script[s].at \in {"new", "ending"} => script[s].child # "alive"
      /\ script[s].at = "over" /\ script[s].child = "alive" => script[s].abandoned
      /\ current = s => s = NoScript \/ script[s].at \in {"running", "killing", "ending"}
  BY DEF OversightInv, OversightTypeOK, ScriptRecord, HandlesHeld, ChildIsHeld, LeaderEnds, CodeEnds,
         CodeExpires, Terminates
<1>2. PICK k \in ScriptRecord :
          /\ script' = [script EXCEPT ![s] = k]
          /\ k.inTurn = script[s].inTurn /\ k.abandoned = script[s].abandoned
          /\ k.child = "alive" => script[s].child = "alive"
          /\ \/ k.at = script[s].at
             \/ script[s].at = "running" /\ k.at = "killing"
             \/ script[s].at \in {"running", "killing"} /\ k.at = "ending" /\ k.child # "alive"
  <2>1. CASE LeaderEnds(s)
    <3>1. PICK child \in {"rest", "dead"} : script' = [script EXCEPT ![s].child = child]
      BY <2>1 DEF LeaderEnds
    <3> DEFINE k == [script[s] EXCEPT !.child = child]
    <3>2. /\ k \in ScriptRecord /\ script' = [script EXCEPT ![s] = k] /\ k.at = script[s].at
          /\ k.inTurn = script[s].inTurn /\ k.abandoned = script[s].abandoned /\ k.child # "alive"
      BY <1>1, <3>1 DEF ScriptRecord
    <3> HIDE DEF k
    <3> QED
      BY <3>2
  <2>2. CASE CodeEnds(s)
    <3>1. PICK child \in {"rest", "dead"} : script' = [script EXCEPT ![s].child = child, ![s].at = "ending"]
      BY <2>2 DEF CodeEnds
    <3> DEFINE k == [script[s] EXCEPT !.child = child, !.at = "ending"]
    <3>2. script' = [script EXCEPT ![s] = k]
      BY <1>1, <3>1
    <3>3. /\ k \in ScriptRecord /\ k.at = "ending" /\ script[s].at = "running"
          /\ k.inTurn = script[s].inTurn /\ k.abandoned = script[s].abandoned /\ k.child # "alive"
      BY <1>1, <2>2 DEF ScriptRecord, CodeEnds
    <3> HIDE DEF k
    <3> QED
      BY <3>2, <3>3
  <2>3. CASE CodeExpires(s)
    <3> DEFINE k == [script[s] EXCEPT !.at = "killing"]
    <3>1. /\ k \in ScriptRecord /\ script' = [script EXCEPT ![s] = k] /\ k.at = "killing"
          /\ k.inTurn = script[s].inTurn /\ k.abandoned = script[s].abandoned
          /\ k.child = script[s].child /\ script[s].at = "running"
      BY <1>1, <2>3 DEF ScriptRecord, CodeExpires
    <3> HIDE DEF k
    <3> QED
      BY <3>1
  <2>4. CASE Terminates(s)
    <3> DEFINE k == [script[s] EXCEPT !.child = "dead", !.at = "ending"]
    <3>1. script' = [script EXCEPT ![s] = k]
      BY <1>1, <2>4 DEF Terminates
    <3>2. /\ k \in ScriptRecord /\ k.at = "ending" /\ script[s].at = "killing"
          /\ k.inTurn = script[s].inTurn /\ k.abandoned = script[s].abandoned /\ k.child # "alive"
      BY <1>1, <2>4 DEF ScriptRecord, Terminates
    <3> HIDE DEF k
    <3> QED
      BY <3>1, <3>2
  <2> QED
    BY <2>1, <2>2, <2>3, <2>4
<1> QED
  BY <1>1, <1>2, ScriptKeeps, OversightAssumption

\* A call that is over has given the place up, if it had it.
LEMMA ScriptEnds ==
  ASSUME OversightInv, NEW s \in Script, GivesUpHandle(s) \/ CodeAbandoned(s)
  PROVE  OversightInv'
<1>1. /\ script \in [Script -> ScriptRecord] /\ script[s] \in ScriptRecord
      /\ current \in Script \cup {NoScript} /\ displaced \in SUBSET Script
      /\ watched \in Script \cup {NoScript} /\ NoScript \notin Script
      /\ UNCHANGED <<watched, displaced, gates, pauses>>
      /\ script[s].at \in {"new", "ending"} => script[s].child # "alive"
      /\ current' = IF current = s THEN NoScript ELSE current
  BY OversightAssumption DEF OversightInv, OversightTypeOK, ScriptRecord, HandlesHeld, GivesUpHandle,
                             CodeAbandoned, Clears
<1>2. PICK k \in ScriptRecord :
          /\ script' = [script EXCEPT ![s] = k] /\ k.at = "over" /\ (k.child = "alive" => k.abandoned)
  <2>1. CASE GivesUpHandle(s)
    <3> DEFINE k == [script[s] EXCEPT !.at = "over"]
    <3>1. /\ k \in ScriptRecord /\ script' = [script EXCEPT ![s] = k] /\ k.at = "over"
          /\ k.child # "alive"
      BY <1>1, <2>1 DEF ScriptRecord, GivesUpHandle
    <3> HIDE DEF k
    <3> QED
      BY <3>1
  <2>2. CASE CodeAbandoned(s)
    <3> DEFINE k == [script[s] EXCEPT !.at = "over", !.abandoned = TRUE]
    <3>1. script' = [script EXCEPT ![s] = k]
      BY <1>1, <2>2 DEF CodeAbandoned
    <3>2. k \in ScriptRecord /\ k.at = "over" /\ k.abandoned
      BY <1>1 DEF ScriptRecord
    <3> HIDE DEF k
    <3> QED
      BY <3>1, <3>2
  <2> QED
    BY <2>1, <2>2
<1> QED
  BY <1>1, <1>2, ScriptKeeps

\* A Stop ends processes, and takes no place.
LEMMA StopStep ==
  ASSUME OversightInv, StopTerminates \/ StopKills
  PROVE  OversightInv'
<1>1. /\ script \in [Script -> ScriptRecord] /\ NoScript \notin Script
      /\ current \in Script \cup {NoScript} /\ displaced \in SUBSET Script
      /\ watched' \in Script \cup {NoScript} /\ UNCHANGED <<current, displaced, gates, pauses>>
  BY OversightAssumption DEF OversightInv, OversightTypeOK, ScriptRecord, StopTerminates, StopKills
<1>2. CASE UNCHANGED script
  <2>1. UNCHANGED <<policy, gate, decision, news, runs, raised, pause, entry, resumed>>
    BY <1>1 DEF gates, pauses
  <2>2. OversightTypeOK'
    BY <1>1, <1>2, <2>1 DEF OversightInv, OversightTypeOK
  <2> QED
    BY <1>1, <1>2, <2>1, <2>2 DEF OversightInv, RunsCounted, Bypassed, HeldRoles, EntriesWait, WaiterIsListed,
                                  HandlesHeld, ChildIsHeld
<1>3. CASE /\ current \in Script
           /\ \E child \in {"alive", "rest", "dead"} : script' = [script EXCEPT ![current].child = child]
           /\ script[current].child = "alive"
  <2>1. PICK child \in {"alive", "rest", "dead"} : script' = [script EXCEPT ![current].child = child]
    BY <1>3
  <2> DEFINE k == [script[current] EXCEPT !.child = child]
  <2>2. /\ k \in ScriptRecord /\ script' = [script EXCEPT ![current] = k]
        /\ k.at = script[current].at /\ k.abandoned = script[current].abandoned
        /\ script[current].at \in {"running", "killing", "ending"}
        /\ script[current].at \notin {"new", "ending"}
    BY <1>1, <1>3, <2>1 DEF ScriptRecord, OversightInv, HandlesHeld, ChildIsHeld
  <2> HIDE DEF k
  <2> QED
    BY <1>1, <1>3, <2>2, ScriptKeeps
<1> QED
  BY <1>1, <1>2, <1>3 DEF StopTerminates, StopKills

\* So do scripts: the place is kept until the process has ended.
LEMMA ScriptsStep == OversightInv /\ ScriptsNext => OversightInv'
  BY RunsCodeStep, ScriptProceeds, ScriptEnds, StopStep DEF ScriptsNext

\* So does a step that leaves the oversight alone.
LEMMA OversightStutters == OversightInv /\ UNCHANGED oversight => OversightInv'
<1> SUFFICES ASSUME OversightInv, UNCHANGED oversight PROVE OversightInv'
  OBVIOUS
<1>1. UNCHANGED <<policy, gate, decision, news, runs, raised, pause, entry, resumed, script, current,
               watched, displaced>>
  BY DEF oversight, gates, pauses, scripts
<1>2. OversightTypeOK'
  BY <1>1 DEF OversightInv, OversightTypeOK
<1>3. (\A g \in Gated : RunsCounted(g)') /\ EntriesWait' /\ WaiterIsListed' /\ HandlesHeld' /\ ChildIsHeld'
  BY <1>1 DEF OversightInv, RunsCounted, Bypassed, HeldRoles, EntriesWait, WaiterIsListed, HandlesHeld,
              ChildIsHeld
<1> QED
  BY <1>2, <1>3 DEF OversightInv

\* Two reasons to run are two.
LEMMA RunsHaveReason == OversightInv => RunsOnlyApproved
<1> SUFFICES ASSUME OversightInv, NEW g \in Gated
             PROVE  LET bypassed == HeldRoles(policy.config) \cap policy.bypass # {}
                        reasons == {x \in {"bypass", "approval"} :
                                      IF x = "bypass" THEN bypassed ELSE decision[g] = "approved"}
                    IN  /\ runs[g] <= Cardinality(reasons)
                        /\ runs[g] = 2 => g \in raised
  BY DEF RunsOnlyApproved
<1> DEFINE bypassed == HeldRoles(policy.config) \cap policy.bypass # {}
           reasons == {x \in {"bypass", "approval"} :
                         IF x = "bypass" THEN bypassed ELSE decision[g] = "approved"}
<1>1. RunsCounted(g) /\ runs[g] \in Nat
  BY DEF OversightInv, OversightTypeOK
<1>2. (Bypassed => "bypass" \in reasons) /\ (decision[g] = "approved" => "approval" \in reasons)
  BY DEF Bypassed
<1>3. IsFiniteSet(reasons) /\ Cardinality(reasons) \in Nat
  <2>1. IsFiniteSet({"bypass"} \cup {"approval"}) /\ reasons \subseteq {"bypass"} \cup {"approval"}
    BY FS_AddElement, FS_Singleton
  <2> HIDE DEF reasons
  <2> QED
    BY <2>1, FS_Subset, FS_CardinalityType
<1>4. reasons # {} => Cardinality(reasons) >= 1
  <2> HIDE DEF reasons
  <2> QED
    BY <1>3, FS_EmptySet
<1>5. "bypass" \in reasons /\ "approval" \in reasons => Cardinality(reasons) = 2
  <2>1. "bypass" \in reasons /\ "approval" \in reasons => reasons = {"bypass"} \cup {"approval"}
    OBVIOUS
  <2>2. Cardinality({"bypass"} \cup {"approval"}) = 2
    <3>1. /\ IsFiniteSet({"bypass"}) /\ Cardinality({"bypass"}) = 1 /\ "approval" \notin {"bypass"}
      BY FS_Singleton
    <3> QED
      BY <3>1, FS_AddElement
  <2> QED
    BY <2>1, <2>2
<1>6. "bypass" \in reasons \/ "approval" \in reasons => reasons # {}
  OBVIOUS
<1> HIDE DEF reasons, Bypassed
<1>7. /\ runs[g] <= Cardinality(reasons)
      /\ runs[g] = 2 => g \in raised
  BY <1>1, <1>2, <1>3, <1>4, <1>5, <1>6 DEF RunsCounted
<1> QED
  BY <1>7 DEF reasons

(***************************************************************************)
(* What a workspace tells of its tools (Readiness).                        *)
(***************************************************************************)
\* The tool whose listing the signal is of.
Verb == "provision_workspace"

\* What the prober has published: the list it has seeded is the one it found,
\* until it was ready once, and a signal that is up has its verb in the list.
ProberInOrder ==
    /\ prober.at = "seeded" /\ ~prober.frozen /\ loaded.by = "prober" => loaded.tools = prober.found
    /\ prober.frozen /\ loaded.by = "prober" => Verb \in loaded.tools
    /\ ready.signal = "yes" => prober.frozen

\* A heartbeat nobody has overtaken has read the list that is published, and it
\* has no signal before it reads that.
BeatInOrder ==
    /\ beat.at # "ready" => beat.signal # "yes"
    /\ beat.at \in {"loaded", "facing"} /\ ~beat.overtaken => beat.loaded = loaded

ReadinessInv == ReadinessTypeOK /\ ProberInOrder /\ BeatInOrder /\ ReadyIsObserved

\* The kinds of the variables that are records.
Probers == [at : {"idle", "probing", "listed", "seeded", "over"}, found : SUBSET ManagementTools,
            frozen : BOOLEAN]
Listings == [tools : List, by : Producer]
Beats == [at : {"idle", "loaded", "facing", "ready", "posted"}, loaded : Listings, orphaned : List,
          signal : {Unset, "yes", "no"}, overtaken : BOOLEAN]
Captured == [at : {"idle", "listing", "facing", "waiting", "over"}, attempt : 0..MaxCaptures]

\* The heartbeat at rest is of the type of heartbeats.
LEMMA NoBeatIsBeat ==
    /\ NoBeat \in Beats
    /\ NoBeat.at = "idle" /\ NoBeat.signal = Unset /\ NoBeat.loaded.by = "nobody"
    /\ {Unset} \in List /\ NoBeat.loaded \in Listings
<1>1. {Unset} \in List /\ "nobody" \in Producer
  BY DEF List, Producer
<1>2. [tools |-> {Unset}, by |-> "nobody"] \in Listings
  BY <1>1 DEF Listings
<1> QED
  BY <1>1, <1>2 DEF NoBeat, Beats

\* Nothing is published at first.
LEMMA ReadinessInitially == ReadinessInit => ReadinessInv
<1> SUFFICES ASSUME ReadinessInit PROVE ReadinessInv
  OBVIOUS
<1>1. ReadinessTypeOK
  <2>1. changes \in 0..MaxChanges /\ 0 \in 0..MaxCaptures
    BY ReadinessAssumption DEF ReadinessInit
  <2>2. loaded \in Listings /\ beat \in Beats /\ facing \in List
    BY NoBeatIsBeat DEF ReadinessInit, NoBeat
  <2>3. prober \in Probers /\ capture \in Captured
    BY <2>1 DEF ReadinessInit, Probers, Captured
  <2>4. ready \in [signal : {Unset, "yes", "no"}, once : BOOLEAN] /\ failure \in BOOLEAN
    BY DEF ReadinessInit
  <2>5. management \in Management /\ foreign \in Health
    BY DEF ReadinessInit, Health
  <2> QED
    BY <2>1, <2>2, <2>3, <2>4, <2>5
       DEF ReadinessTypeOK, Probers, Captured, Listings, Beats
<1>2. ProberInOrder /\ BeatInOrder /\ ReadyIsObserved
  <2>1. beat.at = "idle" /\ beat.signal = Unset /\ beat.loaded.by = "nobody"
    BY NoBeatIsBeat DEF ReadinessInit
  <2> QED
    BY <2>1, ReadinessAssumption
       DEF ReadinessInit, ProberInOrder, BeatInOrder, ReadyIsObserved
<1> QED
  BY <1>1, <1>2 DEF ReadinessInv

\* The typing of the records, by the names above.
LEMMA ReadinessTyped ==
    ReadinessTypeOK <=>
        /\ management \in Management /\ foreign \in Health /\ changes \in 0..MaxChanges
        /\ prober \in Probers /\ loaded \in Listings /\ facing \in List
        /\ ready \in [signal : {Unset, "yes", "no"}, once : BOOLEAN] /\ failure \in BOOLEAN
        /\ capture \in Captured /\ beat \in Beats
  BY DEF ReadinessTypeOK, Probers, Listings, Captured, Beats

\* Publishing leaves a mark on the heartbeat that is being put together.
LEMMA OvertakenIsMarked ==
    ASSUME beat \in Beats, Overtakes
    PROVE  /\ beat' \in Beats
           /\ beat'.at = beat.at /\ beat'.signal = beat.signal /\ beat'.loaded = beat.loaded
           /\ beat.at \in {"loaded", "facing", "ready"} => beat'.overtaken
           /\ beat.overtaken => beat'.overtaken
<1>1. (beat.at \notin {"idle", "posted"} \/ beat.overtaken) \in BOOLEAN
  BY DEF Beats
<1> QED
  BY <1>1 DEF Overtakes, Beats

\* What is listed is a list.
LEMMA ListsAreLists ==
    ASSUME NEW seen, seen \subseteq ToolId
    PROVE  seen \in List
  BY DEF List

\* No step of the prober, the listing at boot, a turn or the heartbeat undoes it.
LEMMA ReadinessStep == ReadinessInv /\ ReadinessNext => ReadinessInv'
<1> SUFFICES ASSUME ReadinessInv, ReadinessNext PROVE ReadinessInv'
  OBVIOUS
<1> USE DEF ReadinessInv
<1>0. /\ management \in Management /\ foreign \in Health /\ changes \in 0..MaxChanges
      /\ prober \in Probers /\ loaded \in Listings /\ facing \in List
      /\ ready \in [signal : {Unset, "yes", "no"}, once : BOOLEAN] /\ failure \in BOOLEAN
      /\ capture \in Captured /\ beat \in Beats
  BY ReadinessTyped
<1>a. ASSUME management' \in Management, foreign' \in Health, changes' \in 0..MaxChanges,
             prober' \in Probers, loaded' \in Listings, facing' \in List,
             ready' \in [signal : {Unset, "yes", "no"}, once : BOOLEAN], failure' \in BOOLEAN,
             capture' \in Captured, beat' \in Beats
      PROVE  ReadinessTypeOK'
  BY <1>a DEF ReadinessTypeOK, Probers, Listings, Captured, Beats
<1>b. Managed \subseteq ManagementTools
  BY DEF Managed
<1>c. Listed \subseteq ToolId
  BY <1>b DEF Listed, ToolId
<1>1. CASE ServersChange
  <2>1. changes' \in 0..MaxChanges
    BY <1>0, <1>1, ReadinessAssumption DEF ServersChange
  <2>2. ReadinessTypeOK'
    BY <1>0, <1>1, <1>a, <2>1 DEF ServersChange, published
  <2> QED
    BY <1>1, <2>2 DEF ServersChange, published, ProberInOrder, BeatInOrder, ReadyIsObserved
<1>2. CASE Probes \/ ProbeFails \/ ProbeLists \/ ProberStops
  <2>1. /\ prober' \in Probers /\ prober'.at # "seeded" /\ prober'.frozen = prober.frozen
        /\ UNCHANGED <<servers, published, capture, beat>>
    BY <1>0, <1>2, <1>b DEF Probes, ProbeFails, ProbeLists, ProberStops, Probers
  <2>2. ReadinessTypeOK'
    BY <1>0, <1>a, <2>1 DEF servers, published
  <2> QED
    BY <2>1, <2>2 DEF servers, published, ProberInOrder, BeatInOrder, ReadyIsObserved
<1>3. CASE PublishesLoaded
  <2>1. /\ prober' \in Probers /\ prober'.at = "seeded" /\ prober'.frozen = prober.frozen
        /\ prober'.found = prober.found
    BY <1>0, <1>3 DEF PublishesLoaded, Probers
  <2>2. /\ UNCHANGED <<servers, facing, ready, failure, capture>>
        /\ Overtakes
    BY <1>3 DEF PublishesLoaded
  <2>3. prober.found \in List
    BY <1>0 DEF Probers, List, ToolId
  <2>4. loaded' \in Listings
    BY <1>0, <1>3, <2>3 DEF PublishesLoaded, SeedsLoaded, Listings, Producer
  <2>5. ReadinessTypeOK'
    BY <1>0, <1>a, <2>1, <2>2, <2>4, OvertakenIsMarked DEF servers
  <2>6. ProberInOrder'
    <3>1. IF prober.frozen THEN loaded' = loaded
                           ELSE loaded'.tools = prober.found /\ loaded'.by = "prober"
      BY <1>3 DEF PublishesLoaded, SeedsLoaded
    <3>2. prober'.at = "seeded" /\ ~prober'.frozen /\ loaded'.by = "prober" =>
              loaded'.tools = prober'.found
      BY <2>1, <3>1
    <3>3. prober'.frozen /\ loaded'.by = "prober" => Verb \in loaded'.tools
      BY <2>1, <3>1 DEF ProberInOrder
    <3>4. ready'.signal = "yes" => prober'.frozen
      BY <2>1, <2>2 DEF ProberInOrder
    <3> QED
      BY <3>2, <3>3, <3>4 DEF ProberInOrder
  <2>7. BeatInOrder' /\ ReadyIsObserved'
    BY <1>0, <2>2, OvertakenIsMarked DEF BeatInOrder, ReadyIsObserved
  <2> QED
    BY <2>5, <2>6, <2>7
<1>4. CASE PublishesReady
  <2> DEFINE is == "provision_workspace" \in prober.found
  <2>1. /\ prober' \in Probers /\ prober'.at = "idle" /\ prober'.frozen = (prober.frozen \/ is)
        /\ prober.at = "seeded"
    BY <1>0, <1>4 DEF PublishesReady, Probers
  <2>2. /\ UNCHANGED <<servers, loaded, facing, failure, capture>>
        /\ Overtakes
        /\ ready' = [signal |-> IF is THEN "yes" ELSE "no", once |-> ready.once \/ is]
    BY <1>4 DEF PublishesReady
  <2>3. ready' \in [signal : {Unset, "yes", "no"}, once : BOOLEAN] /\ (ready'.signal = "yes" => is)
    BY <1>0, <2>2
  <2>4. ReadinessTypeOK'
    BY <1>0, <1>a, <2>1, <2>2, <2>3, OvertakenIsMarked DEF servers
  <2>5. prober'.frozen /\ loaded.by = "prober" => Verb \in loaded.tools
    BY <2>1 DEF ProberInOrder, Verb
  <2>6. ProberInOrder'
    BY <2>1, <2>2, <2>3, <2>5 DEF ProberInOrder
  <2>7. BeatInOrder' /\ ReadyIsObserved'
    BY <1>0, <2>2, OvertakenIsMarked DEF BeatInOrder, ReadyIsObserved
  <2> QED
    BY <2>4, <2>6, <2>7
<1>5. CASE CaptureTries
  <2>1. /\ capture' \in Captured
        /\ UNCHANGED <<servers, prober, published, beat>>
    BY <1>0, <1>5, ReadinessAssumption DEF CaptureTries, Captured
  <2>2. ReadinessTypeOK'
    BY <1>0, <1>a, <2>1 DEF servers, published
  <2> QED
    BY <2>1, <2>2 DEF published, ProberInOrder, BeatInOrder, ReadyIsObserved
<1>6. CASE Captures
  <2>1. /\ capture' \in Captured /\ failure' \in BOOLEAN
        /\ UNCHANGED <<servers, prober, facing, ready>>
    BY <1>0, <1>6 DEF Captures, Captured, FailsToLaunch
  <2>2. CASE UNCHANGED <<loaded, beat>>
    <3>1. ReadinessTypeOK'
      BY <1>0, <1>a, <2>1, <2>2 DEF servers
    <3> QED
      BY <2>1, <2>2, <3>1 DEF ProberInOrder, BeatInOrder, ReadyIsObserved
  <2>3. CASE loaded' = [tools |-> Listed, by |-> "boot"] /\ Overtakes
    <3>1. loaded' \in Listings /\ loaded'.by = "boot"
      BY <1>c, <2>3, ListsAreLists DEF Listings, Producer
    <3>2. ReadinessTypeOK'
      BY <1>0, <1>a, <2>1, <2>3, <3>1, OvertakenIsMarked DEF servers
    <3>3. ProberInOrder'
      BY <2>1, <3>1 DEF ProberInOrder
    <3>4. BeatInOrder' /\ ReadyIsObserved'
      BY <1>0, <2>3, OvertakenIsMarked DEF BeatInOrder, ReadyIsObserved
    <3> QED
      BY <3>2, <3>3, <3>4
  <2> QED
    BY <1>6, <2>2, <2>3 DEF Captures
<1>7. CASE CapturesFacing
  <2>1. loaded.tools \ {Unset} \subseteq ToolId
    BY <1>0 DEF Listings, List
  <2>2. capture' \in Captured /\ facing' \in List
    BY <1>0, <1>7, <2>1, ListsAreLists DEF CapturesFacing, Captured
  <2>3. UNCHANGED <<servers, prober, loaded, ready, failure, beat>>
    BY <1>7 DEF CapturesFacing
  <2>4. ReadinessTypeOK'
    BY <1>0, <1>a, <2>2, <2>3 DEF servers
  <2> QED
    BY <2>3, <2>4 DEF ProberInOrder, BeatInOrder, ReadyIsObserved
<1>8. CASE TurnCaptures
  <2>1. loaded' \in Listings /\ loaded'.by = "turn"
    BY <1>8, <1>c, ListsAreLists DEF TurnCaptures, Listings, Producer
  <2>2. Overtakes /\ UNCHANGED <<servers, prober, facing, ready, failure, capture>>
    BY <1>8 DEF TurnCaptures
  <2>3. ReadinessTypeOK'
    BY <1>0, <1>a, <2>1, <2>2, OvertakenIsMarked DEF servers
  <2>4. ProberInOrder'
    BY <2>1, <2>2 DEF ProberInOrder
  <2>5. BeatInOrder' /\ ReadyIsObserved'
    BY <1>0, <2>2, OvertakenIsMarked DEF BeatInOrder, ReadyIsObserved
  <2> QED
    BY <2>3, <2>4, <2>5
<1>9. CASE BeatReadsLoaded \/ BeatReadsFacing \/ BeatReadsReady \/ Posts \/ BeatEnds
  <2>1. UNCHANGED <<servers, prober, published, capture>>
    BY <1>9 DEF BeatReadsLoaded, BeatReadsFacing, BeatReadsReady, Posts, BeatEnds
  <2>2. ASSUME beat' \in Beats PROVE ReadinessTypeOK' /\ ProberInOrder'
    BY <1>0, <1>a, <2>1, <2>2 DEF servers, published, ProberInOrder
  <2>3. CASE BeatReadsLoaded
    <3>1. /\ beat' \in Beats /\ beat'.at = "loaded" /\ beat'.loaded = loaded
          /\ beat'.signal = Unset
      BY <1>0, <2>3, NoBeatIsBeat DEF BeatReadsLoaded, Beats
    <3> QED
      BY <2>1, <2>2, <3>1, ReadinessAssumption DEF published, BeatInOrder, ReadyIsObserved
  <2>4. CASE BeatReadsFacing
    <3>1. Orphaned(beat.loaded.tools, facing) \in List
      BY <1>0 DEF Orphaned, Beats, Listings, List
    <3>2. /\ beat' \in Beats /\ beat'.at = "facing" /\ beat'.loaded = beat.loaded
          /\ beat'.signal = beat.signal /\ beat'.overtaken = beat.overtaken /\ beat.at = "loaded"
      BY <1>0, <2>4, <3>1 DEF BeatReadsFacing, Beats
    <3> QED
      BY <2>1, <2>2, <3>2 DEF published, BeatInOrder, ReadyIsObserved
  <2>5. CASE BeatReadsReady
    <3>1. /\ beat' \in Beats /\ beat'.at = "ready" /\ beat'.loaded = beat.loaded
          /\ beat'.signal = ready.signal /\ beat'.overtaken = beat.overtaken /\ beat.at = "facing"
      BY <1>0, <2>5 DEF BeatReadsReady, Beats
    <3>2. BeatInOrder'
      BY <3>1 DEF BeatInOrder
    <3>3. ReadyIsObserved'
      BY <3>1 DEF BeatInOrder, ProberInOrder, ReadyIsObserved, Verb
    <3> QED
      BY <2>2, <3>1, <3>2, <3>3
  <2>6. CASE Posts \/ BeatEnds
    <3>1. /\ beat' \in Beats /\ beat'.at \in {"posted", "idle"} /\ beat'.signal = Unset
      BY <2>6, NoBeatIsBeat DEF Posts, BeatEnds, Beats
    <3> QED
      BY <2>2, <3>1, ReadinessAssumption DEF BeatInOrder, ReadyIsObserved
  <2> QED
    BY <1>9, <2>3, <2>4, <2>5, <2>6
<1> QED
  BY <1>1, <1>2, <1>3, <1>4, <1>5, <1>6, <1>7, <1>8, <1>9 DEF ReadinessNext

\* A step that leaves the readiness alone keeps its invariant.
LEMMA ReadinessStutters == ReadinessInv /\ UNCHANGED readiness => ReadinessInv'
  BY DEF ReadinessInv, readiness, servers, published, ReadinessTypeOK, ProberInOrder, BeatInOrder,
         ReadyIsObserved

(***************************************************************************)
(* The skills of a workspace (Skills).                                     *)
(***************************************************************************)
\* The watcher is up.
Watching == watcher \in {"idle", "settling", "reloading"}

\* The hashes are of no later edit than the copy on the disk.
HashesAreOlder ==
    /\ \A s \in Skill : disk[s].edit <= edits /\ baseline[s].edit <= edits
    /\ Watching => \A s \in Skill : disk[s].kind = "gone" \/ disk[s].edit >= baseline[s].edit

\* A skill that needs no reload any more is served as the hashes are of it.
ReloadedIsSeen ==
    /\ watcher # "reloading" => changed = {}
    /\ Watching => \A s \in Skill \ changed :
                       because[s] = "nothing" => served[s].edit >= baseline[s].edit
    /\ watcher \in {"loaded", "idle", "settling", "reloading"} =>
           \A s \in Skill : because[s] = "nothing" => served[s].kind # "gone"

\* Only a runtime that lists directories in its configuration has entries that
\* may not be a list.
ListsAreListed == surface.had = "misshapen" => surface.runtime = "listing"

SkillInv ==
    SkillsTypeOK /\ HashesAreOlder /\ ReloadedIsSeen /\ AuthoredIsKept /\ ListsAreListed

\* What the proofs need of the typing.
LEMMA SkillsTyped ==
    ASSUME SkillsTypeOK
    PROVE  /\ disk \in [Skill -> Copies] /\ baseline \in [Skill -> Copies] /\ served \in [Skill -> Copies]
           /\ edits \in 0..MaxEdits /\ edits \in Nat
           /\ \A s \in Skill : disk[s].edit \in Nat /\ baseline[s].edit \in Nat
<1>1. /\ disk \in [Skill -> Copies] /\ baseline \in [Skill -> Copies] /\ served \in [Skill -> Copies]
      /\ edits \in 0..MaxEdits
  BY DEF SkillsTypeOK
<1>2. \A c \in Copies : c.edit \in Nat
  BY SkillsAssumption DEF Copies
<1> QED
  BY <1>1, <1>2, SkillsAssumption

\* Nothing is edited or served at first.
LEMMA SkillsInitially == SkillsInit => SkillInv
<1> SUFFICES ASSUME SkillsInit PROVE SkillInv
  OBVIOUS
<1>1. Gone \in Copies /\ Gone.edit = 0
  BY SkillsAssumption DEF Gone, Copies, Kind
<1>2. disk \in [Skill -> Copies] /\ \A s \in Skill : disk[s].edit = 0
  BY SkillsAssumption DEF SkillsInit, Copies, Kind
<1>3. /\ served \in [Skill -> Copies] /\ baseline \in [Skill -> Copies]
      /\ \A s \in Skill : baseline[s].edit = 0
  BY <1>1 DEF SkillsInit
<1>4. /\ surface \in [runtime : Runtimes, place : Places, had : Places, shown : BOOLEAN]
      /\ surface.had = surface.place /\ (surface.had = "misshapen" => surface.runtime = "listing")
  BY DEF SkillsInit
<1>5. SkillsTypeOK
  <2>1. scan \in [mode : {"off", "warn", "block"}, failOpen : BOOLEAN, installed : BOOLEAN]
    BY DEF SkillsInit
  <2>2. edits = 0 /\ adapter \in {"nothing", "skills", "tools"} /\ routes = FALSE /\ watcher = "boot" /\ changed = {}
    BY DEF SkillsInit
  <2>3. because \in [Skill -> {"nothing", "skipped", "raced", "refused", "unkept"}]
    BY DEF SkillsInit
  <2>4. edits \in 0..MaxEdits
    BY <2>2, SkillsAssumption
  <2>5. /\ adapter \in {"nothing", "skills", "tools"} /\ routes \in BOOLEAN /\ changed \in SUBSET Skill
        /\ watcher \in {"boot", "failed", "loaded", "idle", "settling", "reloading"}
    BY <2>2
  <2> QED
    BY <1>2, <1>3, <1>4, <2>1, <2>3, <2>4, <2>5 DEF SkillsTypeOK
<1> QED
  BY <1>2, <1>3, <1>4, <1>5
     DEF SkillsInit, SkillInv, HashesAreOlder, ReloadedIsSeen, Watching, AuthoredIsKept, ListsAreListed

\* What a skill was loaded from was there.
LEMMA LoadedWasThere ==
    ASSUME NEW c, NEW verdict, LoadSkill(c, verdict) = "loaded"
    PROVE  c.kind # "gone"
  BY DEF LoadSkill

\* An edit makes the copy on the disk the latest.
LEMMA EditStep ==
    ASSUME SkillInv, NEW s \in Skill, Edit(s)
    PROVE  SkillInv'
<1>a. edits \in Nat /\ edits < MaxEdits
  BY SkillsTyped DEF Edit, SkillInv
<1>1. PICK c \in Copies : /\ disk' = [disk EXCEPT ![s] = c]
                          /\ c.edit = edits + 1 \/ (c.edit = 0 /\ c.kind = "gone")
  <2>1. PICK k \in Kind : disk' = [disk EXCEPT ![s] = IF k = "gone" THEN Gone
                                                         ELSE [edit |-> edits + 1, kind |-> k]]
    BY DEF Edit
  <2>2. [edit |-> edits + 1, kind |-> k] \in Copies
    BY <1>a, SkillsAssumption DEF Copies
  <2>3. Gone \in Copies /\ Gone.edit = 0 /\ Gone.kind = "gone"
    BY SkillsAssumption DEF Gone, Copies, Kind
  <2>4. CASE k = "gone"
    BY <2>1, <2>3, <2>4
  <2>5. CASE k # "gone"
    BY <2>1, <2>2, <2>5
  <2> QED
    BY <2>4, <2>5
<1>2. /\ edits' = edits + 1 /\ edits < MaxEdits /\ edits \in Nat
      /\ UNCHANGED <<scan, served, adapter, routes, watcher, baseline, changed, because, surface>>
  BY <1>a DEF Edit
<1>3. /\ disk \in [Skill -> Copies] /\ baseline \in [Skill -> Copies]
      /\ \A k \in Skill : disk[k].edit \in Nat /\ baseline[k].edit \in Nat
  BY SkillsTyped DEF SkillInv
<1>4. SkillsTypeOK'
  <2>1. disk' \in [Skill -> Copies] /\ edits' \in 0..MaxEdits
    BY <1>1, <1>2, <1>3, SkillsAssumption
  <2> QED
    BY <1>2, <2>1 DEF SkillInv, SkillsTypeOK
<1>5. \A k \in Skill : disk'[k] = IF k = s THEN c ELSE disk[k]
  BY <1>1, <1>3
<1>6. HashesAreOlder'
  BY <1>1, <1>2, <1>3, <1>5 DEF SkillInv, HashesAreOlder, Watching
<1>7. ReloadedIsSeen' /\ AuthoredIsKept' /\ ListsAreListed'
  BY <1>2 DEF SkillInv, ReloadedIsSeen, AuthoredIsKept, ListsAreListed, Watching
<1> QED
  BY <1>4, <1>6, <1>7 DEF SkillInv

\* What the setup serves is what it has read from the disk.
LEMMA CommonSetupStep ==
    ASSUME SkillInv, CommonSetup
    PROVE  SkillInv'
<1>1. PICK verdict \in [Skill -> {"clean", "findings", "error"}] :
          LET outcome == [s \in Skill |-> LoadSkill(disk[s], verdict[s])]
          IN  IF \E s \in Skill : outcome[s] = "raised"
              THEN watcher' = "failed" /\ UNCHANGED <<served, routes, because>>
              ELSE /\ watcher' = "loaded"
                   /\ served' = [s \in Skill |-> IF outcome[s] = "loaded" THEN disk[s] ELSE Gone]
                   /\ because' = [s \in Skill |->
                                    IF outcome[s] = "loaded" THEN "nothing" ELSE "skipped"]
                   /\ routes' \in ChildrenFound
  BY DEF CommonSetup
<1>2. /\ watcher = "boot" /\ changed = {}
      /\ UNCHANGED <<scan, disk, edits, adapter, baseline, changed, surface>>
  BY DEF CommonSetup, SkillInv, ReloadedIsSeen
<1> DEFINE outcome == [s \in Skill |-> LoadSkill(disk[s], verdict[s])]
<1>3. CASE watcher' = "failed" /\ UNCHANGED <<served, routes, because>>
  <2>1. SkillsTypeOK'
    BY <1>2, <1>3 DEF SkillInv, SkillsTypeOK
  <2> QED
    BY <1>2, <1>3, <2>1 DEF SkillInv, HashesAreOlder, ReloadedIsSeen, AuthoredIsKept, ListsAreListed, Watching
<1>4. CASE /\ watcher' = "loaded"
           /\ served' = [s \in Skill |-> IF outcome[s] = "loaded" THEN disk[s] ELSE Gone]
           /\ because' = [s \in Skill |-> IF outcome[s] = "loaded" THEN "nothing" ELSE "skipped"]
           /\ routes' \in ChildrenFound
  <2>1. \A s \in Skill : outcome[s] = "loaded" => disk[s].kind # "gone"
    BY LoadedWasThere
  <2> HIDE DEF outcome
  <2>2. Gone \in Copies
    BY SkillsAssumption DEF Gone, Copies, Kind
  <2>3. SkillsTypeOK'
    BY <1>2, <1>4, <2>2 DEF SkillInv, SkillsTypeOK, ChildrenFound
  <2>4. HashesAreOlder' /\ AuthoredIsKept' /\ ListsAreListed'
    BY <1>2, <1>4 DEF SkillInv, HashesAreOlder, AuthoredIsKept, ListsAreListed, Watching
  <2>5. ReloadedIsSeen'
    BY <1>2, <1>4, <2>1 DEF ReloadedIsSeen, Watching
  <2> QED
    BY <2>3, <2>4, <2>5 DEF SkillInv
<1> QED
  BY <1>1, <1>3, <1>4

\* The hashes the watcher takes are of the copies on the disk.
LEMMA WatcherStep ==
    ASSUME SkillInv, WatcherStarts \/ TickSees \/ TickCommits
    PROVE  SkillInv'
<1>1. /\ disk \in [Skill -> Copies] /\ baseline \in [Skill -> Copies]
      /\ \A k \in Skill : disk[k].edit \in Nat /\ baseline[k].edit \in Nat
      /\ Scanned = disk
  BY SkillsTyped DEF SkillInv, Scanned
<1>2. CASE WatcherStarts
  <2>1. /\ watcher = "loaded" /\ watcher' = "idle" /\ baseline' = disk /\ changed = {}
        /\ UNCHANGED <<scan, disk, edits, adapter, served, routes, changed, surface>>
    BY <1>1, <1>2 DEF WatcherStarts, SkillInv, ReloadedIsSeen
  <2>a. because' = [s \in Skill |->
                       IF because[s] = "nothing" /\ served[s] # disk[s] THEN "raced" ELSE because[s]]
    BY <1>2 DEF WatcherStarts
  <2>b. \A s \in Skill : because'[s] = "nothing" => because[s] = "nothing" /\ served[s] = disk[s]
    BY <2>a
  <2>2. SkillsTypeOK'
    BY <2>1, <2>a DEF SkillInv, SkillsTypeOK
  <2>3. HashesAreOlder' /\ AuthoredIsKept' /\ ListsAreListed'
    BY <1>1, <2>1 DEF SkillInv, HashesAreOlder, AuthoredIsKept, ListsAreListed
  <2>4. ReloadedIsSeen'
    BY <1>1, <2>1, <2>b DEF SkillInv, ReloadedIsSeen, Watching
  <2> QED
    BY <2>2, <2>3, <2>4 DEF SkillInv
<1>3. CASE TickSees
  <2>1. /\ watcher = "idle" /\ watcher' = "settling"
        /\ UNCHANGED <<scan, disk, edits, adapter, served, routes, baseline, changed, because, surface>>
    BY <1>3 DEF TickSees
  <2>2. SkillsTypeOK'
    BY <2>1 DEF SkillInv, SkillsTypeOK
  <2> QED
    BY <2>1, <2>2 DEF SkillInv, HashesAreOlder, ReloadedIsSeen, AuthoredIsKept, ListsAreListed, Watching
<1>4. CASE TickCommits
  <2>1. /\ watcher = "settling" /\ baseline' = disk /\ changed' = ChangedSkills
        /\ watcher' = IF ChangedSkills = {} THEN "idle" ELSE "reloading"
        /\ UNCHANGED <<scan, disk, edits, adapter, served, routes, because, surface>>
    BY <1>1, <1>4 DEF TickCommits
  <2>2. SkillsTypeOK'
    BY <2>1 DEF SkillInv, SkillsTypeOK, ChangedSkills
  <2>3. HashesAreOlder' /\ AuthoredIsKept' /\ ListsAreListed'
    BY <1>1, <2>1 DEF SkillInv, HashesAreOlder, AuthoredIsKept, ListsAreListed
  <2>4. ReloadedIsSeen'
    BY <1>1, <2>1 DEF SkillInv, ReloadedIsSeen, Watching, ChangedSkills
  <2> QED
    BY <2>2, <2>3, <2>4 DEF SkillInv
<1> QED
  BY <1>2, <1>3, <1>4

\* A skill that is reloaded is served as it is on the disk, unless its file
\* cannot be read.
LEMMA ReloadSkillStep ==
    ASSUME SkillInv, NEW s \in Skill, ReloadSkill(s)
    PROVE  SkillInv'
<1>1. PICK verdict \in RunScanner(disk[s]) : OnReload(s, LoadSkill(disk[s], verdict))
  BY DEF ReloadSkill
<1>2. /\ watcher = "reloading" /\ s \in changed /\ changed' = changed \ {s}
      /\ watcher' = IF changed = {s} THEN "idle" ELSE "reloading"
      /\ UNCHANGED <<scan, disk, edits, adapter, surface, baseline>>
  BY <1>1 DEF ReloadSkill, OnReload
<1> DEFINE outcome == LoadSkill(disk[s], verdict)
<1>3. outcome = "loaded" => disk[s].kind # "gone"
  BY LoadedWasThere
<1> DEFINE became == Outcome(outcome)
<1>a. became \in {"nothing", "refused", "unkept"} /\ (became = "nothing" => outcome = "loaded")
  BY DEF Outcome
<1>4. /\ served' = IF became = "nothing" /\ served[s].kind # "gone"
                   THEN [served EXCEPT ![s] = disk[s]] ELSE served
      /\ routes' \in {routes, FALSE}
      /\ because' = IF served[s].kind = "gone" THEN because ELSE [because EXCEPT ![s] = became]
  <2>1. routes \in BOOLEAN /\ routes' = (routes /\ ~(outcome = "loaded" /\ adapter = "tools"))
    BY <1>1 DEF OnReload, SkillInv, SkillsTypeOK
  <2>2. routes' \in {routes, FALSE}
    BY <2>1
  <2> QED
    BY <1>1, <2>2 DEF OnReload
<1> HIDE DEF outcome, became
<1>5. SkillsTypeOK'
  BY <1>a, <1>2, <1>4 DEF SkillInv, SkillsTypeOK
<1>6. HashesAreOlder' /\ AuthoredIsKept' /\ ListsAreListed'
  BY <1>2 DEF SkillInv, HashesAreOlder, AuthoredIsKept, ListsAreListed, Watching
<1>7. ReloadedIsSeen'
  <2>1. \A k \in Skill : k # s => served'[k] = served[k] /\ because'[k] = because[k]
    BY <1>4 DEF SkillInv, SkillsTypeOK
  <2>2. because'[s] = "nothing" => outcome = "loaded" /\ served'[s] = disk[s]
    BY <1>a, <1>2, <1>4 DEF SkillInv, SkillsTypeOK, ReloadedIsSeen
  <2>3. \A k \in Skill : because'[k] = "nothing" =>
                             /\ served'[k].kind # "gone"
                             /\ k \notin changed' => served'[k].edit >= baseline'[k].edit
    BY <1>2, <1>3, <2>1, <2>2 DEF SkillInv, ReloadedIsSeen, HashesAreOlder, Watching
  <2> QED
    BY <1>2, <2>3 DEF ReloadedIsSeen
<1> QED
  BY <1>5, <1>6, <1>7 DEF SkillInv

\* Every step of the skills keeps their invariant.
LEMMA SkillsStep == SkillInv /\ SkillsNext => SkillInv'
  BY EditStep, CommonSetupStep, WatcherStep, ReloadSkillStep DEF SkillsNext

\* The place where the runtime's discovery looks.
LEMMA SurfaceStep == SkillInv /\ MaterializeSkills => SkillInv'
<1> SUFFICES ASSUME SkillInv, MaterializeSkills PROVE SkillInv'
  OBVIOUS
<1>1. UNCHANGED <<scan, disk, edits, adapter, served, routes, watcher, baseline, changed, because>>
  BY DEF MaterializeSkills
<1>2. surface \in [runtime : Runtimes, place : Places, had : Places, shown : BOOLEAN]
  BY DEF SkillInv, SkillsTypeOK
<1>3. /\ Materialized(surface.runtime, surface.place) \in Places
      /\ surface.place = "authored" => Materialized(surface.runtime, surface.place) = "authored"
  BY <1>2 DEF Materialized, Linked, Entered, Runtimes, Places
<1>4. /\ surface' \in [runtime : Runtimes, place : Places, had : Places, shown : BOOLEAN]
      /\ surface'.had = surface.had /\ surface'.runtime = surface.runtime
      /\ surface.place = "authored" => surface'.place = "authored"
  <2>1. CASE surface' = [surface EXCEPT !.place = Materialized(surface.runtime, @), !.shown = TRUE]
    BY <1>2, <1>3, <2>1
  <2>2. CASE /\ surface.place \in {"nothing", "other"}
             /\ surface' = [surface EXCEPT !.place = "nothing", !.shown = TRUE]
    BY <1>2, <2>2 DEF Places
  <2>3. CASE /\ surface.place \in {"nothing", "other", "misshapen"}
             /\ \E place \in {surface.place, "nothing"} :
                    surface' = [surface EXCEPT !.place = place, !.shown = TRUE]
    BY <1>2, <2>3 DEF Places
  <2> QED
    BY <2>1, <2>2, <2>3 DEF MaterializeSkills
<1>5. SkillsTypeOK'
  BY <1>1, <1>4 DEF SkillInv, SkillsTypeOK
<1> QED
  BY <1>1, <1>4, <1>5 DEF SkillInv, HashesAreOlder, ReloadedIsSeen, AuthoredIsKept, ListsAreListed, Watching

\* So does a step that leaves the skills alone.
LEMMA SkillsStutter == SkillInv /\ UNCHANGED skills => SkillInv'
  BY DEF SkillInv, skills, SkillsTypeOK, HashesAreOlder, ReloadedIsSeen, AuthoredIsKept, ListsAreListed, Watching

\* The invariant of the skills is stronger than the property.
LEMMA ServedAsSeen == SkillInv => SkillsAreServed
  BY DEF SkillInv, ReloadedIsSeen, Watching, SkillsAreServed, ServedIsSeen

(***************************************************************************)
(* The system prompt (SystemPrompt).                                       *)
(***************************************************************************)
\* A copy that is not there holds nothing, and the notes in one were made.
Sound(t) == (t.there \/ IsEmpty(t)) /\ (t.role = 0 => ~t.tail) /\ t.notes \subseteq 1..notes

\* A boot that could not write the volume had no role to copy; a seed is of a
\* copy on the volume.
CopiesAreSound ==
    /\ Sound(configs) /\ Sound(spare) /\ Sound(durable) /\ Sound(seed)
    /\ spare.role = 0 /\ (seed.there => durable.there)

\* A note is in the copy it is said to be in, and one that is in the seed and
\* in the copy came there with it.
NotesAreHome ==
    /\ \A n \in 1..MaxNotes : /\ home[n] = "configs" => n \in configs.notes
                              /\ home[n] = "spare" => n \in spare.notes
                              /\ home[n] = "durable" => n \in durable.notes
    /\ \A n \in seed.notes \cap durable.notes : home[n] = "seeded"

\* The copy on the volume starts with its seed as long as it has a role.
SeedIsRecorded ==
    ~unrecorded /\ durable.role # 0 =>
        /\ seed.there /\ seed.role = durable.role /\ seed.card = durable.card
        /\ seed.tail = durable.tail /\ seed.notes \subseteq durable.notes

PromptInv == PromptTypeOK /\ CopiesAreSound /\ NotesAreHome /\ SeedIsRecorded

\* The absent text and the empty one.
LEMMA EmptyTexts ==
    /\ NoFile \in Texts /\ ~NoFile.there /\ NoFile.role = 0 /\ ~NoFile.tail /\ NoFile.notes = {} /\ ~NoFile.card
    /\ Nothing \in Texts /\ Nothing.there /\ Nothing.role = 0 /\ ~Nothing.tail /\ Nothing.notes = {}
    /\ ~Nothing.card
<1>1. NoFile \in Texts /\ ~NoFile.there /\ NoFile.role = 0 /\ ~NoFile.tail /\ NoFile.notes = {} /\ ~NoFile.card
  BY PromptAssumption DEF NoFile, Texts
<1>2. Nothing = [NoFile EXCEPT !.there = TRUE]
  BY DEF Nothing
<1>3. Nothing \in Texts /\ Nothing.there /\ Nothing.role = 0 /\ ~Nothing.tail /\ Nothing.notes = {} /\ ~Nothing.card
  BY <1>1, <1>2 DEF Texts
<1> QED
  BY <1>1, <1>3

\* A version that is rendered is a text with nothing but the role.
LEMMA RenderedText ==
    ASSUME NEW v \in Versions
    PROVE  v \in Texts /\ v.there /\ v.role # 0 /\ v.notes = {} /\ ~v.card
  BY DEF Versions

\* A generated text is the old one, or holds at most the card.
LEMMA GeneratedText ==
    ASSUME NEW t \in Texts, NEW g \in Generated(t)
    PROVE  /\ g \in Texts
           /\ g = t \/ (g.there /\ g.role = 0 /\ ~g.tail /\ g.notes = {})
<1> DEFINE card == [Nothing EXCEPT !.card = TRUE]
<1>1. card \in Texts /\ card.there /\ card.role = 0 /\ ~card.tail /\ card.notes = {}
  BY EmptyTexts DEF Texts
<1>2. g \in {t, Nothing, card}
  BY DEF Generated
<1> HIDE DEF card
<1> QED
  BY <1>1, <1>2, EmptyTexts

\* Nothing is noted, and nothing is on the volume, at first.
LEMMA PromptInitially == PromptInit => PromptInv
<1> SUFFICES ASSUME PromptInit PROVE PromptInv
  OBVIOUS
<1>1. /\ configs \in Texts /\ configs.notes = {} /\ (configs.there \/ IsEmpty(configs))
      /\ (configs.role = 0 => ~configs.tail)
  BY EmptyTexts, RenderedText DEF PromptInit, IsEmpty
<1>2. spare = NoFile /\ durable = NoFile /\ seed = NoFile /\ IsEmpty(NoFile)
  BY EmptyTexts DEF PromptInit, IsEmpty
<1>3. home \in [1..MaxNotes -> MemoryCopies \cup {"seeded", "gone"}] /\ notes \in 0..MaxNotes /\ notes = 0
  BY PromptAssumption DEF PromptInit
<1>4. PromptTypeOK
  BY <1>1, <1>2, <1>3, EmptyTexts DEF PromptInit, PromptTypeOK
<1>5. CopiesAreSound
  BY <1>1, <1>2, EmptyTexts DEF CopiesAreSound, Sound
<1>6. NotesAreHome /\ SeedIsRecorded
  BY <1>2, <1>3, EmptyTexts DEF PromptInit, NotesAreHome, SeedIsRecorded
<1> QED
  BY <1>4, <1>5, <1>6 DEF PromptInv

\* What the proofs need of the typing.
LEMMA PromptTyped ==
    ASSUME PromptTypeOK
    PROVE  /\ configs \in Texts /\ spare \in Texts /\ durable \in Texts /\ seed \in Texts
           /\ notes \in 0..MaxNotes /\ notes \in Nat
           /\ home \in [1..MaxNotes -> MemoryCopies \cup {"seeded", "gone"}]
           /\ files \in SUBSET {"memory", "default"} /\ nature \in {"appended", "generated", "unlisted"}
  BY PromptAssumption DEF PromptTypeOK

\* A provision renders the configuration anew and leaves the volume alone.
LEMMA ProvisionStep == ASSUME PromptInv, Provision PROVE PromptInv'
<1>1. PICK t \in {NoFile, Nothing} \cup Versions : configs' = t
  BY DEF Provision
<1>2. /\ configs' \in Texts /\ configs'.notes = {} /\ (configs'.there \/ IsEmpty(configs'))
      /\ (configs'.role = 0 => ~configs'.tail)
  BY <1>1, EmptyTexts, RenderedText DEF IsEmpty
<1>3. UNCHANGED <<files, nature, up, prefers, writable, spare, durable, seed, marked, notes, unrecorded>>
  BY DEF Provision
<1>4. /\ persona' \in BOOLEAN
      /\ home' = [n \in 1..MaxNotes |-> IF home[n] = "configs" THEN "gone" ELSE home[n]]
  BY DEF Provision
<1>5. PromptTypeOK'
  BY <1>2, <1>3, <1>4 DEF PromptInv, PromptTypeOK
<1>6. CopiesAreSound'
  BY <1>2, <1>3 DEF PromptInv, CopiesAreSound, Sound, IsEmpty
<1>7. NotesAreHome'
  <2>1. \A n \in 1..MaxNotes : home'[n] # "configs" /\ (home[n] # "configs" => home'[n] = home[n])
                               /\ (home'[n] # "gone" => home'[n] = home[n])
    BY <1>4
  <2>2. seed.notes \subseteq 1..MaxNotes
    BY PromptTyped DEF PromptInv, Texts
  <2> QED
    BY <1>3, <2>1, <2>2 DEF PromptInv, NotesAreHome
<1>8. SeedIsRecorded'
  BY <1>3 DEF PromptInv, SeedIsRecorded
<1> QED
  BY <1>5, <1>6, <1>7, <1>8 DEF PromptInv

\* A note is appended to the copy that is in use.
LEMMA AppendToMemoryStep == ASSUME PromptInv, AppendToMemory PROVE PromptInv'
<1> DEFINE with(t) == [t EXCEPT !.there = TRUE, !.notes = @ \cup {notes + 1}]
<1>1. /\ notes \in Nat /\ notes < MaxNotes /\ notes' = notes + 1
      /\ home' = [home EXCEPT ![notes + 1] = MemorySource]
      /\ configs' = IF MemorySource = "configs" THEN with(configs) ELSE configs
      /\ spare' = IF MemorySource = "spare" THEN with(spare) ELSE spare
      /\ durable' = IF MemorySource = "durable" THEN with(durable) ELSE durable
      /\ UNCHANGED <<files, nature, up, prefers, writable, seed, marked, persona, unrecorded>>
  BY PromptTyped DEF AppendToMemory, PromptInv
<1>2. notes + 1 \in 1..MaxNotes
  BY <1>1, PromptAssumption
<1>3. \A t \in Texts : /\ with(t) \in Texts /\ with(t).there /\ with(t).notes = t.notes \cup {notes + 1}
                       /\ with(t).role = t.role /\ with(t).tail = t.tail /\ with(t).card = t.card
  BY <1>2 DEF Texts
<1> HIDE DEF with
<1>4. /\ configs \in Texts /\ spare \in Texts /\ durable \in Texts /\ seed \in Texts
      /\ home \in [1..MaxNotes -> MemoryCopies \cup {"seeded", "gone"}]
      /\ MemorySource \in MemoryCopies
  BY PromptTyped DEF PromptInv, MemorySource, MemoryCopies
<1>5. /\ configs' \in Texts /\ spare' \in Texts /\ durable' \in Texts
      /\ configs.notes \subseteq configs'.notes /\ spare.notes \subseteq spare'.notes
      /\ durable'.notes \subseteq durable.notes \cup {notes + 1} /\ durable.notes \subseteq durable'.notes
      /\ spare'.role = spare.role /\ durable'.role = durable.role /\ durable'.card = durable.card
      /\ durable'.tail = durable.tail
      /\ durable.there => durable'.there
  BY <1>1, <1>3, <1>4
<1>6. PromptTypeOK'
  <2>1. notes' \in 0..MaxNotes /\ home' \in [1..MaxNotes -> MemoryCopies \cup {"seeded", "gone"}]
    BY <1>1, <1>2, <1>4, PromptAssumption
  <2> QED
    BY <1>1, <1>5, <2>1 DEF PromptInv, PromptTypeOK
<1>7. CopiesAreSound'
  <2>2. \A t \in Texts : Sound(t) => /\ with(t).there /\ with(t).notes \subseteq 1..(notes + 1)
                                     /\ with(t).role = 0 => ~with(t).tail
    BY <1>1, <1>3 DEF Sound
  <2>3. (configs'.there \/ IsEmpty(configs')) /\ configs'.notes \subseteq 1..(notes + 1)
        /\ (configs'.role = 0 => ~configs'.tail)
    BY <1>1, <1>4, <2>2 DEF PromptInv, CopiesAreSound, Sound
  <2>4. (spare'.there \/ IsEmpty(spare')) /\ spare'.notes \subseteq 1..(notes + 1)
        /\ (spare'.role = 0 => ~spare'.tail)
    BY <1>1, <1>4, <2>2 DEF PromptInv, CopiesAreSound, Sound
  <2>5. (durable'.there \/ IsEmpty(durable')) /\ durable'.notes \subseteq 1..(notes + 1)
        /\ (durable'.role = 0 => ~durable'.tail)
    BY <1>1, <1>4, <2>2 DEF PromptInv, CopiesAreSound, Sound
  <2>6. (seed'.there \/ IsEmpty(seed')) /\ seed'.notes \subseteq 1..(notes + 1)
        /\ (seed'.role = 0 => ~seed'.tail)
    BY <1>1 DEF PromptInv, CopiesAreSound, Sound
  <2> QED
    BY <1>1, <1>5, <2>3, <2>4, <2>5, <2>6 DEF PromptInv, CopiesAreSound, Sound, IsEmpty
<1>8. NotesAreHome'
  <2>1. notes + 1 \notin seed.notes
    BY <1>1 DEF PromptInv, CopiesAreSound, Sound
  <2>2. \A n \in 1..MaxNotes : n # notes + 1 => home'[n] = home[n]
    BY <1>1, <1>4
  <2>3. home'[notes + 1] = MemorySource
    BY <1>1, <1>2, <1>4
  <2>4. /\ MemorySource = "configs" => notes + 1 \in configs'.notes
        /\ MemorySource = "spare" => notes + 1 \in spare'.notes
        /\ MemorySource = "durable" => notes + 1 \in durable'.notes
    BY <1>1, <1>3, <1>4
  <2>5. \A n \in 1..MaxNotes : /\ home'[n] = "configs" => n \in configs'.notes
                               /\ home'[n] = "spare" => n \in spare'.notes
                               /\ home'[n] = "durable" => n \in durable'.notes
    BY <1>5, <2>2, <2>3, <2>4 DEF PromptInv, NotesAreHome
  <2>6. \A n \in seed'.notes \cap durable'.notes : home'[n] = "seeded"
    <3>1. seed.notes \subseteq 1..MaxNotes
      BY <1>4 DEF Texts
    <3> QED
      BY <1>1, <1>5, <2>1, <2>2, <3>1 DEF PromptInv, NotesAreHome
  <2> QED
    BY <1>1, <2>5, <2>6 DEF NotesAreHome
<1>9. SeedIsRecorded'
  BY <1>1, <1>5 DEF PromptInv, SeedIsRecorded
<1> QED
  BY <1>6, <1>7, <1>8, <1>9 DEF PromptInv

\* A note that is rehomed is in the copy it goes to, and in no seed of it.
LEMMA RehomedNotes ==
    ASSUME PromptInv, NEW at \in {"spare", "durable"}, NEW t \in Texts, NEW photocopied \in BOOLEAN
    PROVE  /\ Rehomed(at, t, photocopied) \in [1..MaxNotes -> MemoryCopies \cup {"seeded", "gone"}]
           /\ \A n \in 1..MaxNotes :
                 LET h == Rehomed(at, t, photocopied)
                 IN  /\ h[n] = at => n \in t.notes
                     /\ h[n] \in MemoryCopies \ {at} => h[n] = home[n]
                     /\ home[n] = "seeded" => h[n] = "seeded"
                     /\ n \in t.notes /\ photocopied /\ n \in configs.notes => h[n] = "seeded"
<1>1. home \in [1..MaxNotes -> MemoryCopies \cup {"seeded", "gone"}]
  BY PromptTyped DEF PromptInv
<1>2. at \in MemoryCopies
  BY DEF MemoryCopies
<1> DEFINE h == Rehomed(at, t, photocopied)
<1>3. h = [n \in 1..MaxNotes |->
              IF n \in t.notes /\ (home[n] = "seeded" \/ (photocopied /\ n \in configs.notes)) THEN "seeded"
              ELSE IF n \in t.notes THEN at
              ELSE IF home[n] = at THEN "gone" ELSE home[n]]
  BY DEF Rehomed
<1> HIDE DEF h
<1>4. h \in [1..MaxNotes -> MemoryCopies \cup {"seeded", "gone"}]
  BY <1>1, <1>2, <1>3
<1>5. ASSUME NEW n \in 1..MaxNotes
      PROVE  /\ h[n] = at => n \in t.notes
             /\ h[n] \in MemoryCopies \ {at} => h[n] = home[n]
             /\ home[n] = "seeded" => h[n] = "seeded"
             /\ n \in t.notes /\ photocopied /\ n \in configs.notes => h[n] = "seeded"
  <2>1. h[n] = IF n \in t.notes /\ (home[n] = "seeded" \/ (photocopied /\ n \in configs.notes)) THEN "seeded"
               ELSE IF n \in t.notes THEN at
               ELSE IF home[n] = at THEN "gone" ELSE home[n]
    BY <1>3
  <2> QED
    BY <1>1, <2>1 DEF MemoryCopies
<1> QED
  BY <1>4, <1>5 DEF h

\* A boot that can write the volume: what it has copied is the copy before, the
\* rendered file or the copy of a boot that could not write it.
LEMMA MigratedStep ==
    ASSUME PromptInv, NEW result \in Results, Migrated(result),
           home' = Rehomed("durable", durable', Carries /\ ~spare.there),
           up' \in BOOLEAN, prefers' \in BOOLEAN, writable' \in BOOLEAN, persona' \in BOOLEAN,
           UNCHANGED <<files, nature, configs, notes>>
    PROVE  PromptInv'
<1>1. /\ configs \in Texts /\ spare \in Texts /\ durable \in Texts /\ seed \in Texts
      /\ notes \in 0..MaxNotes
  BY PromptTyped DEF PromptInv
<1>2. CopiesAreSound /\ NotesAreHome /\ SeedIsRecorded /\ PromptTypeOK
  BY DEF PromptInv
<1> DEFINE text == IF Carries /\ result # "nothing" THEN Carried ELSE durable
           photocopied == Carries /\ ~spare.there
<1>3. PICK forgets \in BOOLEAN :
          /\ forgets => ~Carries
          /\ durable' \in Generated(text)
          /\ seed' = IF forgets THEN NoFile ELSE Seeds(result \in {"recorded", "marked"})
          /\ unrecorded' = (unrecorded \/ (forgets /\ seed.there)
                               \/ (result \in {"copied", "unread"} /\ photocopied))
          /\ UNCHANGED spare
  BY DEF Migrated
<1>a. home' = Rehomed("durable", durable', photocopied)
  OBVIOUS
<1>4. marked' \in BOOLEAN /\ unrecorded' \in BOOLEAN
  BY <1>2, Zenon DEF Migrated, PromptTypeOK
<1>5. /\ Carries => ~durable.there /\ ~seed.there /\ seed.notes = {} /\ durable.notes = {}
      /\ Carried \in Texts /\ (photocopied => Carried = configs)
      /\ (Carries /\ ~photocopied => Carried = spare) /\ (Carries => Carried.there)
  BY <1>1, <1>2 DEF Carries, Carried, CopiesAreSound, Sound, IsEmpty
<1>6. text \in Texts /\ photocopied \in BOOLEAN
  BY <1>1, <1>5 DEF Carries
<1>7. /\ text.there \/ IsEmpty(text)
      /\ text.role = 0 => ~text.tail
      /\ text.notes \subseteq 1..notes
      /\ durable.there => text.there
  BY <1>2, <1>5 DEF CopiesAreSound, Sound, Carried
<1>8. /\ forgets => seed' = NoFile /\ ~Carries
      /\ ~forgets => seed' = IF photocopied /\ result \in {"recorded", "marked"} THEN configs ELSE seed
      /\ seed' \notin {NoFile, seed} => text = configs /\ text.there
  BY <1>3, <1>5 DEF Seeds
<1>9. /\ photocopied \in BOOLEAN
      /\ Carries /\ result # "nothing" => text = Carried
      /\ ~Carries \/ result = "nothing" => text = durable
  BY <1>6
<1> HIDE DEF text, photocopied
<1>10. /\ durable' \in Texts
       /\ durable' = text \/ (durable'.there /\ durable'.role = 0 /\ ~durable'.tail /\ durable'.notes = {})
  BY <1>3, <1>6, GeneratedText
<1>11. /\ home' \in [1..MaxNotes -> MemoryCopies \cup {"seeded", "gone"}]
       /\ \A n \in 1..MaxNotes :
             /\ home'[n] = "durable" => n \in durable'.notes
             /\ home'[n] \in MemoryCopies \ {"durable"} => home'[n] = home[n]
             /\ home[n] = "seeded" => home'[n] = "seeded"
             /\ n \in durable'.notes /\ photocopied /\ n \in configs.notes => home'[n] = "seeded"
  BY <1>a, <1>6, <1>10, RehomedNotes
<1>12. PromptTypeOK'
  <2>1. seed' \in Texts
    BY <1>1, <1>8, EmptyTexts
  <2> QED
    BY <1>1, <1>2, <1>3, <1>4, <1>10, <1>11, <2>1 DEF PromptTypeOK
<1>13. CopiesAreSound'
  <2>1. /\ (durable'.there \/ IsEmpty(durable)') /\ durable'.notes \subseteq 1..notes
        /\ (durable'.role = 0 => ~durable'.tail)
    BY <1>7, <1>10 DEF IsEmpty
  <2>2. /\ (seed'.there \/ IsEmpty(seed)') /\ seed'.notes \subseteq 1..notes
        /\ (seed'.role = 0 => ~seed'.tail)
    BY <1>2, <1>8, EmptyTexts DEF CopiesAreSound, Sound, IsEmpty
  <2>3. seed'.there => durable'.there
    BY <1>2, <1>7, <1>8, <1>10, EmptyTexts DEF CopiesAreSound
  <2>4. Sound(configs)' /\ Sound(spare)' /\ spare'.role = 0
    BY <1>2, <1>3 DEF CopiesAreSound, Sound, IsEmpty
  <2> QED
    BY <2>1, <2>2, <2>3, <2>4 DEF CopiesAreSound, Sound
<1>14. NotesAreHome'
  <2>1. ASSUME NEW n \in 1..MaxNotes
        PROVE  /\ home'[n] = "configs" => n \in configs'.notes
               /\ home'[n] = "spare" => n \in spare'.notes
               /\ home'[n] = "durable" => n \in durable'.notes
    BY <1>2, <1>3, <1>11 DEF NotesAreHome, MemoryCopies
  <2>2. ASSUME NEW n \in seed'.notes \cap durable'.notes
        PROVE  home'[n] = "seeded"
    <3>1. n \in 1..MaxNotes /\ n \in text.notes
      BY <1>10, <1>12 DEF PromptTypeOK, Texts
    <3>2. CASE photocopied
      BY <1>2, <1>5, <1>9, <1>11, <3>1, <3>2 DEF photocopied
    <3>3. CASE ~photocopied
      <4>1. seed' = seed
        BY <1>8, <2>2, <3>3, EmptyTexts
      <4>2. ~Carries
        BY <1>5, <4>1, <2>2
      <4>3. n \in durable.notes
        BY <1>9, <3>1, <4>2
      <4> QED
        BY <1>2, <1>11, <3>1, <4>1, <4>3, <2>2 DEF NotesAreHome
    <3> QED
      BY <3>2, <3>3, <1>9
  <2> QED
    BY <1>2, <2>1, <2>2 DEF NotesAreHome
<1>15. SeedIsRecorded'
  <2> SUFFICES ASSUME ~unrecorded', durable'.role # 0
               PROVE  /\ seed'.there /\ seed'.role = durable'.role /\ seed'.card = durable'.card
                      /\ seed'.tail = durable'.tail /\ seed'.notes \subseteq durable'.notes
    BY DEF SeedIsRecorded
  <2>1. durable' = text /\ ~unrecorded
    BY <1>3, <1>10
  <2>2. CASE text = durable
    <3>1. seed.there
      BY <1>2, <2>1, <2>2 DEF SeedIsRecorded
    <3>2. seed' = seed
      BY <1>3, <1>5, <1>8, <3>1 DEF photocopied
    <3> QED
      BY <1>2, <2>1, <2>2, <3>2 DEF SeedIsRecorded
  <2>3. CASE text # durable
    <3>1. Carries /\ result # "nothing" /\ text = Carried
      BY <1>9, <2>3
    <3>2. photocopied
      BY <1>2, <1>5, <2>1, <3>1 DEF CopiesAreSound
    <3>3. result \in {"recorded", "marked"} /\ ~forgets
      BY <1>3, <3>1, <3>2 DEF Results
    <3> QED
      BY <1>5, <1>8, <2>1, <3>1, <3>2, <3>3
  <2> QED
    BY <2>2, <2>3
<1> QED
  BY <1>12, <1>13, <1>14, <1>15 DEF PromptInv

\* A boot moves, seeds or refreshes the copies, or fails between two of them.
LEMMA BootStep == ASSUME PromptInv, Boot PROVE PromptInv'
<1>1. persona' \in BOOLEAN
  BY Zenon DEF Boot, Joined, PromptInv, PromptTypeOK
<1>2. /\ up' \in BOOLEAN /\ prefers' \in BOOLEAN /\ writable' \in BOOLEAN
      /\ UNCHANGED <<files, nature, configs, notes>>
  BY DEF Boot
<1>3. ASSUME NEW result \in Results, Migrated(result),
             home' = Rehomed("durable", durable', Carries /\ ~spare.there)
      PROVE  PromptInv'
  BY <1>1, <1>2, <1>3, MigratedStep
<1>4. ASSUME spare' \in Generated(spare), home' = Rehomed("spare", spare', FALSE),
             UNCHANGED <<durable, seed, marked, unrecorded>>
      PROVE  PromptInv'
  <2>1. spare \in Texts
    BY PromptTyped DEF PromptInv
  <2>2. /\ spare' \in Texts
        /\ spare' = spare \/ (spare'.there /\ spare'.role = 0 /\ ~spare'.tail /\ spare'.notes = {})
    BY <1>4, <2>1, GeneratedText
  <2> DEFINE no == FALSE
  <2>a. no \in BOOLEAN /\ home' = Rehomed("spare", spare', no)
    BY <1>4
  <2> HIDE DEF no
  <2>3. /\ home' \in [1..MaxNotes -> MemoryCopies \cup {"seeded", "gone"}]
        /\ \A n \in 1..MaxNotes :
              /\ home'[n] = "spare" => n \in spare'.notes
              /\ home'[n] \in MemoryCopies \ {"spare"} => home'[n] = home[n]
              /\ home[n] = "seeded" => home'[n] = "seeded"
    BY <2>2, <2>a, RehomedNotes
  <2>4. PromptTypeOK'
    BY <1>1, <1>2, <1>4, <2>2, <2>3 DEF PromptInv, PromptTypeOK
  <2>5. CopiesAreSound'
    <3>1. (spare'.there \/ IsEmpty(spare)') /\ spare'.notes \subseteq 1..notes
          /\ spare'.role = 0 /\ ~spare'.tail
      BY <2>2 DEF PromptInv, CopiesAreSound, Sound, IsEmpty
    <3> QED
      BY <1>2, <1>4, <3>1 DEF PromptInv, CopiesAreSound, Sound, IsEmpty
  <2>6. NotesAreHome'
    <3>1. seed.notes \subseteq 1..MaxNotes
      BY PromptTyped DEF PromptInv, Texts
    <3> QED
      BY <1>2, <1>4, <2>3, <3>1 DEF PromptInv, NotesAreHome, MemoryCopies
  <2>7. SeedIsRecorded'
    BY <1>4 DEF PromptInv, SeedIsRecorded
  <2> QED
    BY <2>4, <2>5, <2>6, <2>7 DEF PromptInv
<1>5. ASSUME UNCHANGED <<spare, durable, seed, marked, unrecorded, home>>
      PROVE  PromptInv'
  <2>1. PromptTypeOK'
    BY <1>1, <1>2, <1>5 DEF PromptInv, PromptTypeOK
  <2>2. CopiesAreSound'
    BY <1>2, <1>5 DEF PromptInv, CopiesAreSound, Sound, IsEmpty
  <2>3. NotesAreHome' /\ SeedIsRecorded'
    BY <1>2, <1>5 DEF PromptInv, NotesAreHome, SeedIsRecorded
  <2> QED
    BY <2>1, <2>2, <2>3 DEF PromptInv
<1> QED
  BY <1>3, <1>4, <1>5 DEF Boot

\* The end of a container changes no copy.
LEMMA GoesDownStep == ASSUME PromptInv, GoesDown PROVE PromptInv'
<1>1. PromptTypeOK'
  BY DEF PromptInv, PromptTypeOK, GoesDown
<1>2. CopiesAreSound'
  BY DEF PromptInv, CopiesAreSound, Sound, IsEmpty, GoesDown
<1>3. NotesAreHome' /\ SeedIsRecorded'
  BY DEF PromptInv, NotesAreHome, SeedIsRecorded, GoesDown
<1> QED
  BY <1>1, <1>2, <1>3 DEF PromptInv

\* Every step of the prompt keeps its invariant.
LEMMA PromptStep == PromptInv /\ PromptNext => PromptInv'
  BY ProvisionStep, AppendToMemoryStep, BootStep, GoesDownStep DEF PromptNext

\* So does a step that leaves the prompt alone.
LEMMA PromptStutters == PromptInv /\ UNCHANGED prompt => PromptInv'
<1> SUFFICES ASSUME PromptInv, UNCHANGED prompt PROVE PromptInv'
  OBVIOUS
<1>1. PromptTypeOK'
  BY DEF PromptInv, PromptTypeOK, prompt
<1>2. CopiesAreSound'
  BY DEF PromptInv, CopiesAreSound, Sound, IsEmpty, prompt
<1>3. NotesAreHome' /\ SeedIsRecorded'
  BY DEF PromptInv, NotesAreHome, SeedIsRecorded, prompt
<1> QED
  BY <1>1, <1>2, <1>3 DEF PromptInv

\* What is left of a text without another one it starts with.
LEMMA ResidueOf ==
    ASSUME NEW memory \in Texts, NEW role \in Texts
    PROVE  /\ Without(memory, role) \in Texts
           /\ Without(memory, role).notes = memory.notes \ role.notes
           /\ Without(memory, role).role = IF role.role = 0 THEN memory.role ELSE 0
           /\ Without(memory, role).tail <=> memory.tail /\ ~role.tail
<1> DEFINE r == IF role.role = 0 THEN memory.role ELSE 0
           e == memory.tail /\ ~role.tail
           n == memory.notes \ role.notes
<1>1. r \in 0..MaxRoles /\ e \in BOOLEAN /\ n \in SUBSET (1..MaxNotes)
  BY PromptAssumption DEF Texts
<1>2. Without(memory, role) = [memory EXCEPT !.role = r, !.tail = e, !.notes = n]
  BY DEF Without, Texts
<1> HIDE DEF r, e, n
<1>3. /\ Without(memory, role) \in Texts /\ Without(memory, role).role = r
      /\ Without(memory, role).tail = e /\ Without(memory, role).notes = n
  BY <1>1, <1>2 DEF Texts
<1> QED
  BY <1>3 DEF r, e, n

\* A text that is demoted keeps its notes and its role.
LEMMA DemotedText ==
    ASSUME NEW t \in Texts
    PROVE  /\ Demoted(t).notes = t.notes /\ Demoted(t).role = t.role /\ Demoted(t).tail = t.tail
           /\ ~RoleLoaded => ~Demoted(t).card
  BY DEF Demoted, Texts

\* What is left of the memory without the role is a text.
LEMMA ResidueIsText ==
    ASSUME PromptTypeOK, NEW memory \in Texts, NEW role \in Texts, NEW legible \in BOOLEAN
    PROVE  Residue(memory, role, legible) \in Texts
<1>1. seed \in Texts
  BY PromptTyped
<1>2. Without(memory, role) \in Texts /\ Without(memory, seed) \in Texts
  BY <1>1, ResidueOf
<1> QED
  BY <1>2, EmptyTexts DEF Residue

\* A note in the memory of this boot is in the prompt.
LEMMA NotesAreIn == PromptInv => NotesReachPrompt
<1> SUFFICES ASSUME PromptInv, NEW n \in 1..notes, NEW legible \in BOOLEAN, home[n] = MemorySource,
                    ~("memory" \in files /\ configs.there /\ nature = "unlisted" /\ ~SeedKnown(legible))
             PROVE  n \in RolePart.notes \cup MemoryPart(legible).notes
  BY DEF NotesReachPrompt
<1> DEFINE memory == Copy(MemorySource)
<1>1. /\ configs \in Texts /\ spare \in Texts /\ durable \in Texts /\ seed \in Texts
      /\ n \in 1..MaxNotes /\ PromptTypeOK
  BY PromptTyped, PromptAssumption DEF PromptInv
<1>2. memory \in Texts /\ n \in memory.notes /\ memory.there
  BY <1>1 DEF PromptInv, NotesAreHome, CopiesAreSound, Sound, IsEmpty, Copy, MemorySource
<1>3. SeedKnown(legible) => n \notin seed.notes
  BY <1>1, <1>2 DEF PromptInv, NotesAreHome, Copy, SeedKnown
<1>4. MemoryFile = MemorySource
  BY <1>2 DEF MemoryFile
<1> HIDE DEF memory
<1>5. CASE "memory" \in files /\ ~IsEmpty(RolePart) /\ MemoryFile = RoleFile
  BY <1>2, <1>4, <1>5 DEF RolePart, memory
<1>6. CASE /\ ~("memory" \in files /\ ~IsEmpty(RolePart) /\ MemoryFile = RoleFile)
           /\ "memory" \in files /\ RoleFile = "configs" /\ ~IsEmpty(configs)
  <2>1. RolePart = configs /\ configs.there
    BY <1>6 DEF RolePart, Copy, PromptInv, CopiesAreSound, Sound
  <2>2. MemoryPart(legible) = Demoted(Residue(memory, configs, legible))
    BY <1>4, <1>6 DEF MemoryPart, memory
  <2>3. MemoryPart(legible).notes = Residue(memory, configs, legible).notes
    BY <1>1, <1>2, <2>2, DemotedText, ResidueIsText
  <2>4. n \in configs.notes \/ n \in Residue(memory, configs, legible).notes
    <3>1. CASE memory = configs
      BY <1>2, <3>1
    <3>2. CASE memory # configs /\ StartsWith(memory, configs)
      BY <1>1, <1>2, <3>2, ResidueOf DEF Residue
    <3>3. CASE memory # configs /\ ~StartsWith(memory, configs) /\ SeedKnown(legible)
      <4>1. Residue(memory, configs, legible) \in {memory, Without(memory, seed)}
        BY <3>3 DEF Residue
      <4> QED
        BY <1>1, <1>2, <1>3, <3>3, <4>1, ResidueOf
    <3>4. CASE memory # configs /\ ~StartsWith(memory, configs) /\ ~SeedKnown(legible)
      <4>1. nature # "unlisted"
        BY <1>6, <2>1, <3>4
      <4>2. Residue(memory, configs, legible) = memory
        BY <3>4, <4>1 DEF Residue
      <4> QED
        BY <1>2, <4>2
    <3> QED
      BY <3>1, <3>2, <3>3, <3>4
  <2> QED
    BY <2>1, <2>3, <2>4
<1>7. CASE /\ ~("memory" \in files /\ ~IsEmpty(RolePart) /\ MemoryFile = RoleFile)
           /\ ~("memory" \in files /\ RoleFile = "configs" /\ ~IsEmpty(configs))
  <2>1. MemoryPart(legible) = Demoted(memory)
    BY <1>4, <1>7 DEF MemoryPart, memory
  <2> QED
    BY <1>2, <2>1, DemotedText
<1> QED
  BY <1>5, <1>6, <1>7

\* No older role trails the one that is read from the configuration directory,
\* but for the last section of one that is cut short.
LEMMA RoleIsThere == PromptInv => RoleIsCurrent
<1> DEFINE yes == TRUE
<1>0. yes \in BOOLEAN
  OBVIOUS
<1> SUFFICES ASSUME PromptInv, RolePart.role # 0, RoleFile = "configs", ~unrecorded
             PROVE  /\ MemoryPart(yes).role = 0
                    /\ MemoryPart(yes).tail => configs.role = Copy(MemoryFile).role /\ ~configs.tail
  BY DEF RoleIsCurrent
<1> DEFINE memory == Copy(MemoryFile)
<1>1. /\ configs \in Texts /\ spare \in Texts /\ durable \in Texts /\ seed \in Texts
      /\ PromptTypeOK
  BY PromptTyped DEF PromptInv
<1>2. "memory" \in files /\ RolePart = configs /\ configs.role # 0 /\ ~IsEmpty(configs)
  BY EmptyTexts DEF RolePart, Copy, IsEmpty
<1>3. CASE MemoryFile = "configs"
  BY <1>2, <1>3, EmptyTexts DEF MemoryPart
<1>4. CASE MemoryFile # "configs"
  <2>1. MemoryFile = MemorySource /\ memory \in Texts
        /\ memory = IF MemorySource = "durable" THEN durable ELSE spare
    BY <1>1, <1>4 DEF MemoryFile, MemorySource, Copy
  <2>a. memory.role = 0 => ~memory.tail
    BY <2>1 DEF PromptInv, CopiesAreSound, Sound
  <2> HIDE DEF memory
  <2>2. MemoryPart(yes) = Demoted(Residue(memory, configs, yes))
    BY <1>2, <1>4 DEF MemoryPart, memory
  <2> DEFINE left == Residue(memory, configs, yes)
  <2>b. left \in Texts
    BY <1>0, <1>1, <2>1, ResidueIsText
  <2>3. MemoryPart(yes).role = left.role /\ MemoryPart(yes).tail = left.tail
    BY <2>2, <2>b, DemotedText
  <2>4. left.role = 0 /\ (left.tail => configs.role = memory.role /\ ~configs.tail)
    <3>1. CASE memory = configs
      BY <3>1, EmptyTexts DEF Residue
    <3>2. CASE memory # configs /\ StartsWith(memory, configs)
      <4>1. left = Without(memory, configs) /\ memory.role = configs.role
        BY <1>2, <3>2 DEF Residue, StartsWith
      <4> HIDE DEF left
      <4> QED
        BY <1>1, <1>2, <2>1, <4>1, ResidueOf
    <3>3. CASE memory # configs /\ ~StartsWith(memory, configs) /\ memory.role = 0
      <4>1. left \in {NoFile, memory, Without(memory, seed)}
        BY <3>3 DEF Residue
      <4> HIDE DEF left
      <4> QED
        BY <1>1, <2>1, <2>a, <3>3, <4>1, ResidueOf, EmptyTexts
    <3>4. CASE memory # configs /\ ~StartsWith(memory, configs) /\ memory.role # 0
      <4>1. memory = durable /\ MemorySource = "durable"
        BY <2>1, <3>4 DEF PromptInv, CopiesAreSound
      <4>2. /\ seed.there /\ seed.role = memory.role /\ seed.card = memory.card
            /\ seed.tail = memory.tail /\ seed.notes \subseteq memory.notes
        BY <3>4, <4>1 DEF PromptInv, SeedIsRecorded
      <4>3. StartsWith(memory, seed) /\ SeedKnown(yes)
        BY <4>1, <4>2 DEF StartsWith, SeedKnown
      <4>4. left = Without(memory, seed)
        BY <3>4, <4>3 DEF Residue
      <4> HIDE DEF left
      <4> QED
        BY <1>1, <2>1, <3>4, <4>2, <4>4, ResidueOf
    <3> QED
      BY <3>1, <3>2, <3>3, <3>4
  <2> HIDE DEF left
  <2> QED
    BY <2>3, <2>4 DEF memory
<1> QED
  BY <1>3, <1>4

\* The invariant of the prompt is stronger than the property.
LEMMA PromptHolds == PromptInv => PromptIsWhole
<1> SUFFICES ASSUME PromptInv, ~RoleLoaded, "memory" \notin files, NEW legible \in BOOLEAN
             PROVE  ~MemoryPart(legible).card
  BY NotesAreIn, RoleIsThere DEF PromptIsWhole, CardIsWithheld
<1>1. Copy(MemoryFile) \in Texts
  BY PromptTyped DEF PromptInv, Copy, MemoryFile
<1> QED
  BY <1>1, DemotedText DEF MemoryPart

(***************************************************************************)
(* The files of messages (Attachments).                                    *)
(***************************************************************************)
\* A copy is moved into the cache whole; the file that is being resolved is in
\* the cache once it is acknowledged, and it is none of those left out.
CacheIsMoved ==
    /\ \A f \in File : cache[f] # "torn"
    /\ step \notin {"writing", "acking"} => part = {}
    /\ step = "acking" => \A f \in part : cache[f] = "whole" \/ f \in removed
    /\ skipped \cap (parts \cup part) = {}

\* The steps of a turn up to its reply.
BeforeCopies == {"extracting", "writing", "acking", "composing", "replying"}

\* The copies of the turn that is under way are made after its reply, each once.
CopiesInOrder ==
    /\ step # "idle" => turns # 0
    /\ \A r \in sent :
          /\ r.turn <= turns
          /\ step \in BeforeCopies => r.turn # turns
          /\ step = "staging" /\ r.turn = turns => r.file \notin mentioned

AttachInv ==
    /\ AttachmentsTypeOK /\ CacheIsMoved /\ CopiesInOrder
    /\ AckedIsHeld /\ SkippedIsRenamed /\ SentIsFixed

\* A copy that was sent.
CopyRecord == [file : Made, turn : 1..MaxTurns, version : 1..MaxVersions]

\* What the proofs need of the typing.
LEMMA AttachmentsTyped ==
    ASSUME AttachmentsTypeOK
    PROVE  /\ upload \in [Upload -> [form : Forms, size : Sizes, image : BOOLEAN]]
           /\ store \in [Upload -> {"kept", "expired", "acked"}]
           /\ cache \in [File -> {"none", "torn", "whole"}]
           /\ parts \in SUBSET File /\ part \in SUBSET File /\ attached \in SUBSET File
           /\ listed \in SUBSET File /\ inlined \in SUBSET File /\ skipped \in SUBSET File
           /\ removed \in SUBSET File
           /\ turns \in 0..MaxTurns /\ turns \in Nat
           /\ made \in [Made -> 0..MaxVersions] /\ mentioned \in SUBSET Made
           /\ copies \in [Made \X (1..MaxTurns) -> 0..MaxVersions]
           /\ sent \in SUBSET CopyRecord
<1>1. turns \in 0..MaxTurns
  BY DEF AttachmentsTypeOK
<1>2. turns \in Nat
  BY <1>1, AttachmentsAssumption
<1> QED
  BY <1>1, <1>2 DEF AttachmentsTypeOK, CopyRecord

\* A file is a part of an upload.
LEMMA FilesAreNamed ==
    ASSUME NEW f \in File
    PROVE  f[1] \in Upload /\ f[2] \in PartName /\ f = <<f[1], f[2]>>
  BY DEF File

\* And every part of an upload is a file.
LEMMA FileOfName ==
    ASSUME NEW u \in Upload, NEW n \in PartName
    PROVE  <<u, n>> \in File /\ <<u, n>>[1] = u /\ <<u, n>>[2] = n
  BY DEF File

\* Nothing is cached, shown or copied at first.
LEMMA AttachmentsInitially == AttachmentsInit => AttachInv
<1> SUFFICES ASSUME AttachmentsInit PROVE AttachInv
  OBVIOUS
<1>1. AttachmentsTypeOK
  <2>1. turns \in 0..MaxTurns /\ made \in [Made -> 0..MaxVersions]
        /\ copies \in [Made \X (1..MaxTurns) -> 0..MaxVersions]
    BY AttachmentsAssumption DEF AttachmentsInit
  <2>2. upload \in [Upload -> [form : Forms, size : Sizes, image : BOOLEAN]]
    BY DEF AttachmentsInit
  <2>3. /\ store \in [Upload -> {"kept", "expired", "acked"}]
        /\ cache \in [File -> {"none", "torn", "whole"}]
        /\ volume \in SUBSET Upload
    BY DEF AttachmentsInit
  <2>4. /\ step = "idle" /\ parts = {} /\ part = {} /\ attached = {} /\ listed = {} /\ inlined = {}
        /\ skipped = {} /\ placed \in SUBSET Made /\ mentioned = {} /\ sent = {} /\ removed = {}
    BY DEF AttachmentsInit
  <2> QED
    BY <2>1, <2>2, <2>3, <2>4 DEF AttachmentsTypeOK
<1>2. CacheIsMoved /\ CopiesInOrder
  BY DEF AttachmentsInit, CacheIsMoved, CopiesInOrder
<1>3. AckedIsHeld /\ SkippedIsRenamed /\ SentIsFixed
  BY DEF AttachmentsInit, AckedIsHeld, SkippedIsRenamed, SentIsFixed
<1> QED
  BY <1>1, <1>2, <1>3 DEF AttachInv

\* What leaves the cache, the uploads and the files that were left out alone.
LEMMA CacheKeeps ==
    ASSUME AttachInv, UNCHANGED <<cache, removed, store>>, skipped' \in {skipped, {}}
    PROVE  (\A f \in File : cache'[f] # "torn") /\ AckedIsHeld' /\ SkippedIsRenamed'
  BY DEF AttachInv, CacheIsMoved, AckedIsHeld, SkippedIsRenamed, Cached

\* What leaves the copies alone, and does not begin to make some.
LEMMA CopiesKeep ==
    ASSUME AttachInv, UNCHANGED <<copies, sent, turns>>,
           step' # "idle" => step # "idle",
           step' \in BeforeCopies => step \in BeforeCopies,
           step' = "staging" => step \in BeforeCopies \/ (step = "staging" /\ mentioned' \subseteq mentioned)
    PROVE  CopiesInOrder' /\ SentIsFixed'
  BY DEF AttachInv, CopiesInOrder, SentIsFixed, BeforeCopies

\* A turn starts with nothing shown, and none of its copies made.
LEMMA TurnStartsStep == ASSUME AttachInv, TurnStarts PROVE AttachInv'
<1>1. /\ step' = "extracting" /\ turns' = turns + 1 /\ turns' \in 0..MaxTurns /\ turns \in Nat
      /\ parts' \in SUBSET File /\ skipped' = {} /\ part' = {} /\ attached' = {}
      /\ listed' = {} /\ inlined' = {} /\ mentioned' = {}
      /\ UNCHANGED <<platform, cache, made, placed, copies, sent, removed>>
  BY AttachmentsTyped, AttachmentsAssumption DEF AttachInv, TurnStarts
<1>2. AttachmentsTypeOK'
  BY <1>1 DEF AttachInv, AttachmentsTypeOK, platform
<1>3. (\A f \in File : cache'[f] # "torn") /\ AckedIsHeld' /\ SkippedIsRenamed'
  BY <1>1, CacheKeeps DEF platform
<1>4. CacheIsMoved'
  BY <1>1, <1>3 DEF CacheIsMoved
<1>5. CopiesInOrder'
  <2>1. \A r \in sent : r.turn \in Nat
    BY AttachmentsTyped, AttachmentsAssumption DEF AttachInv, CopyRecord
  <2> QED
    BY <1>1, <2>1 DEF AttachInv, CopiesInOrder, BeforeCopies
<1>6. SentIsFixed'
  BY <1>1 DEF AttachInv, SentIsFixed
<1> QED
  BY <1>2, <1>3, <1>4, <1>5, <1>6 DEF AttachInv

\* A file is found in the cache, skipped, or downloaded.
LEMMA ResolvesStep ==
    ASSUME AttachInv, NEW f \in File, FindsFile(f) \/ SkipsFile(f) \/ Downloads(f)
    PROVE  AttachInv'
<1>1. /\ step = "extracting" /\ f \in parts /\ parts' = parts \ {f} /\ part = {}
      /\ step' \in {"extracting", "writing"}
      /\ UNCHANGED <<platform, cache, listed, inlined, turns, outgoing, removed>>
  BY DEF AttachInv, CacheIsMoved, FindsFile, SkipsFile, Downloads, shown
<1>2. /\ attached' \in SUBSET File /\ part' \in SUBSET File /\ skipped' \in SUBSET File
      /\ attached' \subseteq attached \cup {f}
      /\ part' \subseteq {f} /\ skipped' \subseteq skipped \cup {f}
      /\ step' = "extracting" => part' = {}
      /\ f \in skipped' => part' = {}
      /\ f \notin skipped
  BY <1>1, AttachmentsTyped DEF AttachInv, CacheIsMoved, FindsFile, SkipsFile, Downloads, shown
<1>3. AttachmentsTypeOK'
  BY <1>1, <1>2 DEF AttachInv, AttachmentsTypeOK, platform, outgoing
<1>4. CacheIsMoved'
  BY <1>1, <1>2 DEF AttachInv, CacheIsMoved
<1>5. CopiesInOrder' /\ SentIsFixed'
  BY <1>1, CopiesKeep DEF outgoing, BeforeCopies
<1>6. AckedIsHeld'
  BY <1>1 DEF AttachInv, AckedIsHeld, platform
<1>7. SkippedIsRenamed'
  <2>1. CASE skipped' = skipped
    BY <1>1, <2>1 DEF AttachInv, SkippedIsRenamed, Cached
  <2>2. CASE skipped' # skipped
    <3>1. store[f[1]] = "acked" /\ ~Cached(f) /\ skipped' = skipped \cup {f}
      BY <2>2 DEF FindsFile, SkipsFile, Downloads, shown
    <3>2. f[1] \in Upload /\ f[2] \in PartName /\ f = <<f[1], f[2]>>
      BY FilesAreNamed
    <3>3. PICK n \in PartName : cache[<<f[1], n>>] = "whole" \/ <<f[1], n>> \in removed
      BY <3>1, <3>2 DEF AttachInv, AckedIsHeld
    <3>4. f \in removed \/ \E k \in PartName \ {f[2]} : Cached(<<f[1], k>>) \/ <<f[1], k>> \in removed
      <4>1. CASE n = f[2]
        BY <3>1, <3>2, <3>3, <4>1 DEF Cached
      <4>2. CASE n # f[2]
        BY <3>3, <4>2 DEF Cached
      <4> QED
        BY <4>1, <4>2
    <3> QED
      BY <1>1, <3>1, <3>4 DEF AttachInv, SkippedIsRenamed, Cached
  <2> QED
    BY <2>1, <2>2
<1> QED
  BY <1>3, <1>4, <1>5, <1>6, <1>7 DEF AttachInv

\* A download is moved into the cache whole.
LEMMA WritesCacheStep ==
    ASSUME AttachInv, NEW f \in File, WritesCache(f)
    PROVE  AttachInv'
<1>1. /\ step = "writing" /\ part = {f} /\ step' \in {"extracting", "acking"}
      /\ UNCHANGED <<platform, parts, shown, turns, outgoing>>
      /\ f \notin skipped
  BY DEF AttachInv, CacheIsMoved, WritesCache
<1>2. CopiesInOrder' /\ SentIsFixed'
  BY <1>1, CopiesKeep DEF outgoing, BeforeCopies
<1>3. CASE /\ step' = "extracting" /\ part' = {} /\ UNCHANGED <<cache, removed, attached>>
  <2>1. AttachmentsTypeOK'
    BY <1>1, <1>3 DEF AttachInv, AttachmentsTypeOK, platform, shown, outgoing
  <2>2. (\A g \in File : cache'[g] # "torn") /\ AckedIsHeld' /\ SkippedIsRenamed'
    BY <1>1, <1>3, CacheKeeps DEF platform, shown
  <2>3. CacheIsMoved'
    BY <1>1, <1>3, <2>2 DEF AttachInv, CacheIsMoved, shown
  <2> QED
    BY <1>2, <2>1, <2>2, <2>3 DEF AttachInv
<1>4. CASE /\ cache' = [cache EXCEPT ![f] = "whole"] /\ removed' = removed \ {f}
           /\ \/ step' = "acking" /\ UNCHANGED <<part, attached>>
              \/ step' = "extracting" /\ part' = {} /\ attached' = attached \cup {f}
  <2>1. /\ cache' \in [File -> {"none", "torn", "whole"}] /\ cache'[f] = "whole"
        /\ \A g \in File : g # f => cache'[g] = cache[g]
        /\ removed' \in SUBSET File /\ attached' \in SUBSET File /\ part' \in SUBSET File
    BY <1>4, AttachmentsTyped DEF AttachInv
  <2>2. AttachmentsTypeOK'
    BY <1>1, <2>1 DEF AttachInv, AttachmentsTypeOK, platform, shown, outgoing
  <2>3. CacheIsMoved'
    BY <1>1, <1>4, <2>1 DEF AttachInv, CacheIsMoved, shown
  <2>4. ASSUME NEW g \in File, cache[g] # "none" \/ g \in removed
        PROVE  cache'[g] # "none" \/ g \in removed'
    BY <1>4, <2>1, <2>4
  <2>5. ASSUME NEW g \in File, cache[g] = "whole" \/ g \in removed
        PROVE  cache'[g] = "whole" \/ g \in removed'
    BY <1>4, <2>1, <2>5
  <2>6. AckedIsHeld'
    BY <1>1, <2>5, FileOfName DEF AttachInv, AckedIsHeld, platform
  <2>7. SkippedIsRenamed'
    <3> SUFFICES ASSUME NEW g \in skipped
                 PROVE  \/ g \in removed'
                        \/ \E n \in PartName \ {g[2]} : Cached(<<g[1], n>>)' \/ <<g[1], n>> \in removed'
      BY <1>1 DEF SkippedIsRenamed, shown
    <3>1. g \in File /\ g # f /\ g[1] \in Upload
      BY <1>1, AttachmentsTyped, FilesAreNamed DEF AttachInv
    <3>2. CASE g \in removed
      BY <1>4, <3>1, <3>2
    <3>3. CASE g \notin removed
      <4>1. PICK n \in PartName \ {g[2]} : Cached(<<g[1], n>>) \/ <<g[1], n>> \in removed
        BY <3>3 DEF AttachInv, SkippedIsRenamed
      <4>2. Cached(<<g[1], n>>)' \/ <<g[1], n>> \in removed'
        BY <2>4, <3>1, <4>1, FileOfName DEF Cached
      <4> QED
        BY <4>2
    <3> QED
      BY <3>2, <3>3
  <2> QED
    BY <1>2, <2>2, <2>3, <2>6, <2>7 DEF AttachInv
<1> QED
  BY <1>3, <1>4 DEF WritesCache

\* What is acknowledged is in the cache, or was removed by the agent.
LEMMA AcknowledgesStep ==
    ASSUME AttachInv, NEW f \in File, Acknowledges(f)
    PROVE  AttachInv'
<1>1. /\ step = "acking" /\ part = {f} /\ step' = "extracting" /\ part' = {}
      /\ cache[f] = "whole" \/ f \in removed
      /\ UNCHANGED <<upload, volume, cache, parts, shown, turns, outgoing, removed>>
      /\ attached' \in SUBSET File
      /\ store' = store \/ store' = [store EXCEPT ![f[1]] = "acked"]
  BY AttachmentsTyped DEF AttachInv, CacheIsMoved, Acknowledges
<1>2. f[1] \in Upload /\ f[2] \in PartName /\ f = <<f[1], f[2]>>
  BY FilesAreNamed
<1>3. /\ store' \in [Upload -> {"kept", "expired", "acked"}]
      /\ \A u \in Upload : store'[u] = "acked" => store[u] = "acked" \/ u = f[1]
  BY <1>1, <1>2, AttachmentsTyped DEF AttachInv
<1>4. AttachmentsTypeOK'
  BY <1>1, <1>3 DEF AttachInv, AttachmentsTypeOK, shown, outgoing
<1>5. CacheIsMoved'
  BY <1>1 DEF AttachInv, CacheIsMoved, shown
<1>6. CopiesInOrder' /\ SentIsFixed'
  BY <1>1, CopiesKeep DEF outgoing, BeforeCopies
<1>7. AckedIsHeld'
  BY <1>1, <1>2, <1>3 DEF AttachInv, AckedIsHeld
<1>8. SkippedIsRenamed'
  BY <1>1 DEF AttachInv, SkippedIsRenamed, Cached, shown
<1> QED
  BY <1>4, <1>5, <1>6, <1>7, <1>8 DEF AttachInv

\* The turn goes on, and others work beside it.
LEMMA TurnGoesOnStep ==
    ASSUME AttachInv, ExtractionEnds \/ ComposesContent \/ Mentions \/ TurnEnds \/ Crashes
    PROVE  AttachInv'
<1>1. /\ UNCHANGED <<platform, cache, turns, made, placed, copies, sent, removed>>
      /\ skipped' \in {skipped, {}} /\ parts' \subseteq parts
      /\ part' = {} /\ step' \in {"idle", "composing", "replying", "staging"} /\ step # "idle"
      /\ attached' = attached \/ attached' = {}
      /\ listed' \in {listed, attached, {}}
      /\ inlined' \in SUBSET File
      /\ mentioned' \in SUBSET Made
      /\ step' = "idle" \/ step \in {"extracting", "composing", "replying"}
  <2>1. inlined \in SUBSET File /\ attached \in SUBSET File /\ mentioned \in SUBSET Made
    BY AttachmentsTyped DEF AttachInv
  <2>2. step \notin {"writing", "acking"} => part = {}
    BY DEF AttachInv, CacheIsMoved
  <2>3. CASE ExtractionEnds
    BY <2>1, <2>2, <2>3 DEF ExtractionEnds, shown, outgoing
  <2>4. CASE ComposesContent
    BY <2>1, <2>2, <2>4 DEF ComposesContent, outgoing
  <2>5. CASE Mentions
    BY <2>1, <2>2, <2>5 DEF Mentions, shown
  <2>6. CASE TurnEnds
    BY <2>1, <2>2, <2>6 DEF TurnEnds, shown, outgoing
  <2>7. CASE Crashes
    BY <2>7 DEF Crashes
  <2> QED
    BY <2>3, <2>4, <2>5, <2>6, <2>7
<1>2. AttachmentsTypeOK'
  BY <1>1 DEF AttachInv, AttachmentsTypeOK, platform
<1>3. (\A f \in File : cache'[f] # "torn") /\ AckedIsHeld' /\ SkippedIsRenamed'
  BY <1>1, CacheKeeps DEF platform
<1>4. CacheIsMoved'
  BY <1>1, <1>3 DEF AttachInv, CacheIsMoved
<1>5. CopiesInOrder' /\ SentIsFixed'
  BY <1>1, CopiesKeep DEF BeforeCopies
<1> QED
  BY <1>2, <1>3, <1>4, <1>5 DEF AttachInv

\* A file the reply mentions is copied once.
LEMMA StagesStep ==
    ASSUME AttachInv, NEW m \in Made, Stages(m)
    PROVE  AttachInv'
<1>1. /\ step = "staging" /\ m \in mentioned /\ mentioned' = mentioned \ {m}
      /\ step' \in {"ending", "staging"} /\ part = {} /\ turns # 0
      /\ UNCHANGED <<platform, cache, parts, part, attached, shown, turns, made, placed, removed>>
  BY DEF AttachInv, CacheIsMoved, CopiesInOrder, Stages
<1>2. /\ turns \in 1..MaxTurns /\ made \in [Made -> 0..MaxVersions]
      /\ copies \in [Made \X (1..MaxTurns) -> 0..MaxVersions] /\ sent \in SUBSET CopyRecord
      /\ mentioned \in SUBSET Made
  BY <1>1, AttachmentsTyped, AttachmentsAssumption DEF AttachInv
<1>3. (\A f \in File : cache'[f] # "torn") /\ AckedIsHeld' /\ SkippedIsRenamed'
  BY <1>1, CacheKeeps DEF platform, shown
<1>4. CacheIsMoved'
  BY <1>1, <1>3 DEF AttachInv, CacheIsMoved, shown
<1>5. CASE UNCHANGED <<copies, sent>>
  <2>1. AttachmentsTypeOK'
    BY <1>1, <1>2, <1>5 DEF AttachInv, AttachmentsTypeOK, platform, shown
  <2>2. CopiesInOrder' /\ SentIsFixed'
    BY <1>1, <1>5 DEF AttachInv, CopiesInOrder, SentIsFixed, BeforeCopies
  <2> QED
    BY <1>3, <1>4, <2>1, <2>2 DEF AttachInv
<1>6. CASE /\ made[m] # 0
           /\ copies' = [copies EXCEPT ![StagedAt(m)] = made[m]]
           /\ sent' = sent \cup {[file |-> m, turn |-> StagedAt(m)[2], version |-> made[m]]}
  <2> DEFINE new == [file |-> m, turn |-> turns, version |-> made[m]]
  <2>1. /\ StagedAt(m) = <<m, turns>> /\ StagedAt(m)[2] = turns
        /\ <<m, turns>> \in Made \X (1..MaxTurns)
    BY <1>2 DEF StagedAt
  <2>2. made[m] \in 1..MaxVersions /\ made[m] \in 0..MaxVersions
    BY <1>2, <1>6, AttachmentsAssumption
  <2>3. new \in CopyRecord /\ new.turn = turns /\ new.file = m /\ new.version = made[m]
    BY <1>2, <2>2 DEF CopyRecord
  <2>4. sent' = sent \cup {new} /\ copies' = [copies EXCEPT ![<<m, turns>>] = made[m]]
    BY <1>6, <2>1
  <2> HIDE DEF new
  <2>5. AttachmentsTypeOK'
    <3>1. sent' \in SUBSET CopyRecord /\ copies' \in [Made \X (1..MaxTurns) -> 0..MaxVersions]
      BY <1>2, <2>2, <2>3, <2>4
    <3> QED
      BY <1>1, <1>2, <3>1 DEF AttachInv, AttachmentsTypeOK, CopyRecord, platform, shown
  <2>6. CopiesInOrder'
    <3>1. turns \in Nat
      BY <1>2, AttachmentsAssumption
    <3> QED
      BY <1>1, <2>3, <2>4, <3>1 DEF AttachInv, CopiesInOrder, BeforeCopies
  <2>7. SentIsFixed'
    <3> SUFFICES ASSUME NEW r \in sent' PROVE copies'[<<r.file, r.turn>>] = r.version
      BY DEF SentIsFixed
    <3>1. CASE r = new
      BY <1>2, <2>1, <2>3, <2>4, <3>1
    <3>2. CASE r # new
      <4>1. r \in sent /\ copies[<<r.file, r.turn>>] = r.version
        BY <2>4, <3>2 DEF AttachInv, SentIsFixed
      <4>2. <<r.file, r.turn>> # <<m, turns>>
        BY <1>1, <4>1 DEF AttachInv, CopiesInOrder, BeforeCopies
      <4>3. <<r.file, r.turn>> \in Made \X (1..MaxTurns)
        BY <1>2, <4>1 DEF CopyRecord
      <4> QED
        BY <1>2, <2>4, <4>1, <4>2, <4>3
    <3> QED
      BY <3>1, <3>2
  <2> QED
    BY <1>3, <1>4, <2>5, <2>6, <2>7 DEF AttachInv
<1> QED
  BY <1>5, <1>6 DEF Stages

\* What the platform and the agent do to files meanwhile.
LEMMA OthersStep ==
    ASSUME AttachInv, \/ \E u \in Upload : Expires(u)
                      \/ \E f \in File : AgentRemoves(f)
                      \/ \E m \in Made : AgentMakes(m)
    PROVE  AttachInv'
<1>1. CASE \E u \in Upload : Expires(u)
  <2>1. PICK u \in Upload : Expires(u)
    BY <1>1
  <2>2. /\ store' = [store EXCEPT ![u] = "expired"]
        /\ UNCHANGED <<upload, volume, cache, step, parts, part, attached, shown, turns, outgoing, removed>>
    BY <2>1 DEF Expires
  <2>3. /\ store' \in [Upload -> {"kept", "expired", "acked"}]
        /\ \A w \in Upload : store'[w] = "acked" => store[w] = "acked"
    BY <2>2, AttachmentsTyped DEF AttachInv
  <2>4. AttachmentsTypeOK'
    BY <2>2, <2>3 DEF AttachInv, AttachmentsTypeOK, shown, outgoing
  <2>5. CacheIsMoved' /\ CopiesInOrder' /\ SentIsFixed'
    BY <2>2 DEF AttachInv, CacheIsMoved, CopiesInOrder, SentIsFixed, shown, outgoing
  <2>6. AckedIsHeld' /\ SkippedIsRenamed'
    BY <2>2, <2>3 DEF AttachInv, AckedIsHeld, SkippedIsRenamed, Cached, shown
  <2> QED
    BY <2>4, <2>5, <2>6 DEF AttachInv
<1>2. CASE \E f \in File : AgentRemoves(f)
  <2>1. PICK f \in File : AgentRemoves(f)
    BY <1>2
  <2>2. /\ cache' = [cache EXCEPT ![f] = "none"] /\ removed' = removed \cup {f}
        /\ UNCHANGED <<platform, step, parts, part, attached, shown, turns, outgoing>>
    BY <2>1 DEF AgentRemoves
  <2>3. /\ cache' \in [File -> {"none", "torn", "whole"}] /\ removed' \in SUBSET File
        /\ \A g \in File : /\ cache'[g] = cache[g] \/ (cache'[g] = "none" /\ g \in removed')
                           /\ g \in removed => g \in removed'
    BY <2>2, AttachmentsTyped DEF AttachInv
  <2>4. AttachmentsTypeOK'
    BY <2>2, <2>3 DEF AttachInv, AttachmentsTypeOK, platform, shown, outgoing
  <2>5. part \in SUBSET File /\ skipped \in SUBSET File
    BY AttachmentsTyped DEF AttachInv
  <2>6. CacheIsMoved'
    BY <2>2, <2>3, <2>5 DEF AttachInv, CacheIsMoved, shown
  <2>7. CopiesInOrder' /\ SentIsFixed'
    BY <2>2 DEF AttachInv, CopiesInOrder, SentIsFixed, outgoing
  <2>8. AckedIsHeld'
    BY <2>2, <2>3, FileOfName DEF AttachInv, AckedIsHeld, platform
  <2>9. SkippedIsRenamed'
    BY <2>2, <2>3, <2>5, FilesAreNamed, FileOfName DEF AttachInv, SkippedIsRenamed, Cached, shown
  <2> QED
    BY <2>4, <2>6, <2>7, <2>8, <2>9 DEF AttachInv
<1>3. CASE \E m \in Made : AgentMakes(m)
  <2>1. PICK m \in Made : AgentMakes(m)
    BY <1>3
  <2>2. /\ made[m] < MaxVersions /\ made' = [made EXCEPT ![m] = made[m] + 1]
        /\ UNCHANGED <<platform, cache, step, parts, part, attached, shown, turns, placed, mentioned,
                       copies, sent, removed>>
    BY <2>1 DEF AgentMakes
  <2>3. made' \in [Made -> 0..MaxVersions]
    BY <2>2, AttachmentsTyped, AttachmentsAssumption DEF AttachInv
  <2>4. AttachmentsTypeOK'
    BY <2>2, <2>3 DEF AttachInv, AttachmentsTypeOK, platform, shown
  <2>5. CacheIsMoved' /\ CopiesInOrder' /\ SentIsFixed'
    BY <2>2 DEF AttachInv, CacheIsMoved, CopiesInOrder, SentIsFixed, shown
  <2>6. AckedIsHeld' /\ SkippedIsRenamed'
    BY <2>2 DEF AttachInv, AckedIsHeld, SkippedIsRenamed, Cached, platform, shown
  <2> QED
    BY <2>4, <2>5, <2>6 DEF AttachInv
<1> QED
  BY <1>1, <1>2, <1>3

\* Every step of the attachments keeps their invariant.
LEMMA AttachmentsStep == AttachInv /\ AttachmentsNext => AttachInv'
  BY TurnStartsStep, ResolvesStep, WritesCacheStep, AcknowledgesStep, TurnGoesOnStep, StagesStep,
     OthersStep
     DEF AttachmentsNext

\* So does a step that leaves the attachments alone.
LEMMA AttachmentsStutter == AttachInv /\ UNCHANGED attachments => AttachInv'
<1> SUFFICES ASSUME AttachInv, UNCHANGED attachments PROVE AttachInv'
  OBVIOUS
<1>1. AttachmentsTypeOK'
  BY DEF AttachInv, AttachmentsTypeOK, attachments
<1>2. CacheIsMoved' /\ CopiesInOrder' /\ SentIsFixed'
  BY DEF AttachInv, CacheIsMoved, CopiesInOrder, SentIsFixed, attachments
<1>3. AckedIsHeld' /\ SkippedIsRenamed'
  BY DEF AttachInv, AckedIsHeld, SkippedIsRenamed, Cached, attachments
<1> QED
  BY <1>1, <1>2, <1>3 DEF AttachInv

\* The invariant of the attachments is stronger than the property.
LEMMA FilesDoArrive == AttachInv => FilesArrive
<1> SUFFICES ASSUME AttachInv PROVE HandedIsWhole
  BY DEF AttachInv, FilesArrive
<1> QED
  BY AttachmentsTyped DEF AttachInv, CacheIsMoved, HandedIsWhole

(***************************************************************************)
(* The work that is pushed (Publishing).                                   *)
(***************************************************************************)
\* The steps of a hook that knows its branch.
PastReading == {"counting", "pushing", "listing", "creating"}

\* A hook works for a branch of the agent; it is the one that is checked out
\* unless something was checked out in its time, and while all is as when it
\* started, what it has pushed is on the remote.
HooksInOrder ==
    \A h \in Hook : hook[h] \in PastReading =>
        /\ target[h] \in Branch
        /\ h \notin moved => target[h] = head
        /\ h \in calm => h \notin moved
        /\ h \in calm /\ hook[h] \in {"listing", "creating"} => remote[target[h]] = commits[target[h]]

\* A hook that is as calm as it started was not disturbed by a checkout.
CalmIsUnmoved == calm \cap moved = {}

PublishInv == PublishingTypeOK /\ HooksInOrder /\ CalmIsUnmoved /\ QuietIsPublished /\ ProtectedIsLeft

\* The agent's branches are none of the protected ones.
LEMMA BranchesApart ==
    /\ Branch \subseteq Branches /\ "main" \in Branches /\ "staging" \in Branches
    /\ "HEAD" \notin Branches /\ "main" \notin Branch /\ "staging" \notin Branch
    /\ "main" # "staging"
  BY PublishingAssumption DEF Branches, Protected

\* No hook runs at first.
LEMMA PublishingInitially == PublishingInit => PublishInv
<1> SUFFICES ASSUME PublishingInit PROVE PublishInv
  OBVIOUS
<1>1. commits \in [Branches -> 0..MaxCommits] /\ remote \in [Branches -> 0..MaxCommits]
  BY PublishingAssumption DEF PublishingInit
<1>2. /\ head \in Branches \cup {"HEAD"} /\ head \notin Branch
      /\ diverged = {} /\ pulls = {} /\ calm = {} /\ moved = {} /\ strayed = {} /\ caughtUp = FALSE
      /\ hook = [h \in Hook |-> "idle"] /\ target \in [Hook -> Branches]
  BY BranchesApart DEF PublishingInit, Branches, Protected
<1>3. PublishingTypeOK
  BY <1>1, <1>2 DEF PublishingTypeOK
<1>4. HooksInOrder /\ CalmIsUnmoved /\ QuietIsPublished
  BY <1>2 DEF HooksInOrder, PastReading, CalmIsUnmoved, QuietIsPublished
<1>5. ProtectedIsLeft
  BY <1>2, BranchesApart DEF PublishingInit, ProtectedIsLeft
<1> QED
  BY <1>3, <1>4, <1>5 DEF PublishInv

\* The agent and people: no hook is calm any more, and the checkout of another
\* branch is counted against every hook under way.
LEMMA AgentStep ==
    ASSUME PublishInv,
           \/ AgentCommits \/ AgentAmends
           \/ \E b \in Branches \cup {"HEAD"} : AgentChecksOut(b)
           \/ \E b \in Branches : ClosesPull(b)
    PROVE  PublishInv'
<1>1. calm' = {} /\ caughtUp' = FALSE /\ UNCHANGED <<remote, hook, target, strayed>>
  BY DEF AgentCommits, AgentAmends, AgentChecksOut, ClosesPull, Disturbs, checkout
<1>2. CalmIsUnmoved' /\ QuietIsPublished'
  BY <1>1 DEF CalmIsUnmoved, QuietIsPublished
<1>3. CASE AgentCommits
  <2>1. commits' \in [Branches -> 0..MaxCommits]
    BY <1>3, PublishingAssumption DEF AgentCommits, PublishInv, PublishingTypeOK
  <2>2. UNCHANGED <<head, diverged, pulls, moved>>
    BY <1>3 DEF AgentCommits
  <2>3. PublishingTypeOK'
    BY <1>1, <2>1, <2>2 DEF PublishInv, PublishingTypeOK
  <2>4. HooksInOrder' /\ ProtectedIsLeft'
    BY <1>1, <2>2 DEF PublishInv, HooksInOrder, ProtectedIsLeft
  <2> QED
    BY <1>2, <2>3, <2>4 DEF PublishInv
<1>4. CASE AgentAmends \/ \E b \in Branches : ClosesPull(b)
  <2>1. /\ UNCHANGED <<head, commits, moved>> /\ diverged' \in SUBSET Branches
        /\ pulls' \in SUBSET Branches
    BY <1>4 DEF AgentAmends, ClosesPull, checkout, PublishInv, PublishingTypeOK
  <2>2. PublishingTypeOK'
    BY <1>1, <2>1 DEF PublishInv, PublishingTypeOK
  <2>3. HooksInOrder' /\ ProtectedIsLeft'
    BY <1>1, <2>1 DEF PublishInv, HooksInOrder, ProtectedIsLeft
  <2> QED
    BY <1>2, <2>2, <2>3 DEF PublishInv
<1>5. CASE \E b \in Branches \cup {"HEAD"} : AgentChecksOut(b)
  <2>1. /\ head' \in Branches \cup {"HEAD"} /\ moved' = moved \cup {h \in Hook : hook[h] # "idle"}
        /\ UNCHANGED <<commits, diverged, pulls>>
    BY <1>5 DEF AgentChecksOut
  <2>2. PublishingTypeOK'
    BY <1>1, <2>1 DEF PublishInv, PublishingTypeOK
  <2>3. HooksInOrder' /\ ProtectedIsLeft'
    BY <1>1, <2>1 DEF PublishInv, HooksInOrder, ProtectedIsLeft, PastReading
  <2> QED
    BY <1>2, <2>2, <2>3 DEF PublishInv
<1> QED
  BY <1>3, <1>4, <1>5

\* A step of a hook that leaves the remote and the pull requests alone.
LEMMA HookProceeds ==
    ASSUME PublishInv, NEW h \in Hook,
           NEW to \in {"idle", "reading", "counting", "pushing", "listing", "creating"},
           hook' = [hook EXCEPT ![h] = to],
           NEW b \in Branches, target' = [target EXCEPT ![h] = b],
           UNCHANGED <<checkout, remote, pulls, calm, strayed, moved>>,
           to \in PastReading => /\ b \in Branch
                                 /\ h \notin moved => b = head
                                 /\ h \in calm /\ to \in {"listing", "creating"} => remote[b] = commits[b],
           caughtUp' \in BOOLEAN,
           caughtUp' /\ ~caughtUp /\ head \in Branch /\ commits[head] # 0 =>
               remote[head] = commits[head] /\ head \in pulls
    PROVE  PublishInv'
<1>1. PublishingTypeOK'
  BY DEF PublishInv, PublishingTypeOK, checkout
<1>2. HooksInOrder'
  <2> SUFFICES ASSUME NEW k \in Hook, hook'[k] \in PastReading
               PROVE  /\ target'[k] \in Branch
                      /\ k \notin moved => target'[k] = head
                      /\ k \in calm => k \notin moved
                      /\ k \in calm /\ hook'[k] \in {"listing", "creating"} =>
                             remote[target'[k]] = commits[target'[k]]
    BY DEF HooksInOrder, checkout
  <2>1. CASE k = h
    <3>1. hook'[k] = to /\ target'[k] = b
      BY <2>1 DEF PublishInv, PublishingTypeOK
    <3> QED
      BY <2>1, <3>1 DEF PublishInv, CalmIsUnmoved
  <2>2. CASE k # h
    <3>1. hook'[k] = hook[k] /\ target'[k] = target[k]
      BY <2>2 DEF PublishInv, PublishingTypeOK
    <3> QED
      BY <3>1 DEF PublishInv, HooksInOrder
  <2> QED
    BY <2>1, <2>2
<1>3. CalmIsUnmoved' /\ QuietIsPublished' /\ ProtectedIsLeft'
  BY DEF PublishInv, CalmIsUnmoved, QuietIsPublished, ProtectedIsLeft, checkout
<1> QED
  BY <1>1, <1>2, <1>3 DEF PublishInv

\* A hook that starts has no branch yet.
LEMMA HookStartsStep ==
    ASSUME PublishInv, NEW h \in Hook, HookStarts(h)
    PROVE  PublishInv'
<1>1. /\ hook' = [hook EXCEPT ![h] = "reading"] /\ calm' = calm \cup {h} /\ moved' = moved \ {h}
      /\ strayed' = strayed \ {h} /\ UNCHANGED <<checkout, remote, pulls, target, caughtUp>>
  BY DEF HookStarts, Goes
<1>2. PublishingTypeOK'
  BY <1>1 DEF PublishInv, PublishingTypeOK, checkout
<1>3. HooksInOrder'
  BY <1>1 DEF PublishInv, PublishingTypeOK, HooksInOrder, PastReading, checkout
<1>4. CalmIsUnmoved' /\ QuietIsPublished' /\ ProtectedIsLeft'
  BY <1>1 DEF PublishInv, CalmIsUnmoved, QuietIsPublished, ProtectedIsLeft, checkout
<1> QED
  BY <1>2, <1>3, <1>4 DEF PublishInv

\* A hook that reads takes the branch that is checked out.
LEMMA HookReadsStep ==
    ASSUME PublishInv, NEW h \in Hook,
           CommandFails(h) \/ ReadsBranch(h) \/ CountsCommits(h) \/ ListsPulls(h)
    PROVE  PublishInv'
<1>1. /\ target[h] \in Branches /\ target \in [Hook -> Branches]
      /\ target' = [target EXCEPT ![h] = target'[h]]
      /\ UNCHANGED <<checkout, remote, pulls, calm, strayed, moved>>
      /\ calm \cap moved = {} /\ caughtUp \in BOOLEAN
  <2>1. target \in [Hook -> Branches] /\ caughtUp \in BOOLEAN
    BY DEF PublishInv, PublishingTypeOK
  <2>2. target' = target \/ target' = [target EXCEPT ![h] = head]
    BY DEF CommandFails, ReadsBranch, CountsCommits, ListsPulls
  <2> QED
    BY <2>1, <2>2 DEF CommandFails, ReadsBranch, CountsCommits, ListsPulls, PublishInv, CalmIsUnmoved
<1>2. CASE CommandFails(h)
  <2>1. hook' = [hook EXCEPT ![h] = "idle"] /\ target' = target /\ caughtUp' = caughtUp
    BY <1>1, <1>2 DEF CommandFails, Leaves, Goes
  <2> QED
    BY <1>1, <2>1, HookProceeds DEF PastReading
<1>3. CASE ReadsBranch(h) /\ head \in Branch
  <2>1. hook' = [hook EXCEPT ![h] = "counting"] /\ target' = [target EXCEPT ![h] = head]
        /\ caughtUp' = caughtUp
    BY <1>3 DEF ReadsBranch, Goes
  <2> QED
    BY <1>1, <1>3, <2>1, BranchesApart, HookProceeds DEF PastReading
<1>4. CASE ReadsBranch(h) /\ head \notin Branch
  <2>1. hook' = [hook EXCEPT ![h] = "idle"] /\ target' = target /\ caughtUp' \in BOOLEAN
    BY <1>1, <1>4, Zenon DEF ReadsBranch, Leaves, Goes
  <2> QED
    BY <1>1, <1>4, <2>1, HookProceeds DEF PastReading
<1>5. CASE CountsCommits(h)
  <2>1. hook[h] = "counting" /\ target' = target
    BY <1>5 DEF CountsCommits
  <2>2. target[h] \in Branch /\ (h \notin moved => target[h] = head)
    BY <2>1 DEF PublishInv, HooksInOrder, PastReading
  <2>3. CASE Goes(h, "pushing") /\ UNCHANGED caughtUp
    <3>1. hook' = [hook EXCEPT ![h] = "pushing"]
      BY <2>3 DEF Goes
    <3> QED
      BY <1>1, <2>1, <2>2, <2>3, <3>1, HookProceeds DEF PastReading
  <2>4. CASE FALSE \in Ahead /\ Leaves(h, TRUE)
    <3>1. hook' = [hook EXCEPT ![h] = "idle"] /\ caughtUp' \in BOOLEAN
      BY <1>1, <2>4, Zenon DEF Leaves, Goes
    <3>2. caughtUp' /\ ~caughtUp => h \in calm
      BY <2>4, Zenon DEF Leaves
    <3>3. head \in Branch => commits[head] = 0
      BY <2>4, BranchesApart DEF Ahead
    <3> QED
      BY <1>1, <2>1, <3>1, <3>3, HookProceeds DEF PastReading
  <2> QED
    BY <1>5, <2>3, <2>4 DEF CountsCommits
<1>6. CASE ListsPulls(h)
  <2>1. hook[h] = "listing" /\ target' = target
    BY <1>6 DEF ListsPulls
  <2>2. /\ target[h] \in Branch /\ (h \notin moved => target[h] = head)
        /\ h \in calm => h \notin moved /\ remote[target[h]] = commits[target[h]]
    BY <2>1 DEF PublishInv, HooksInOrder, PastReading
  <2>3. CASE target[h] \notin pulls
    <3>1. hook' = [hook EXCEPT ![h] = "creating"] /\ caughtUp' = caughtUp
      BY <1>6, <2>3 DEF ListsPulls, Goes
    <3> QED
      BY <1>1, <2>1, <2>2, <3>1, HookProceeds DEF PastReading
  <2>4. CASE target[h] \in pulls
    <3>1. hook' = [hook EXCEPT ![h] = "idle"] /\ caughtUp' \in BOOLEAN
      BY <1>1, <1>6, <2>4, Zenon DEF ListsPulls, Leaves, Goes
    <3>2. caughtUp' /\ ~caughtUp => h \in calm
      BY <1>6, <2>4, Zenon DEF ListsPulls, Leaves
    <3>3. caughtUp' /\ ~caughtUp => remote[head] = commits[head] /\ head \in pulls
      BY <2>2, <2>4, <3>2
    <3> QED
      BY <1>1, <2>1, <3>1, <3>3, HookProceeds DEF PastReading
  <2> QED
    BY <2>3, <2>4
<1> QED
  BY <1>2, <1>3, <1>4, <1>5, <1>6

\* A push brings the remote to the branch's commits.
LEMMA PushesBranchStep ==
    ASSUME PublishInv, NEW h \in Hook, PushesBranch(h)
    PROVE  PublishInv'
<1>1. /\ hook[h] = "pushing" /\ remote' = [remote EXCEPT ![target[h]] = commits[target[h]]]
      /\ UNCHANGED <<checkout, pulls, target, calm, strayed, moved>>
  BY DEF PushesBranch
<1>2. PICK to \in {"idle", "listing"} : hook' = [hook EXCEPT ![h] = to]
  BY DEF PushesBranch, Leaves, Goes
<1>3. caughtUp' = caughtUp /\ caughtUp \in BOOLEAN
  BY Zenon DEF PushesBranch, Leaves, PublishInv, PublishingTypeOK
<1>4. target[h] \in Branch /\ target[h] \in Branches
  BY <1>1, BranchesApart DEF PublishInv, HooksInOrder, PastReading
<1>5. /\ remote' \in [Branches -> 0..MaxCommits]
      /\ remote'[target[h]] = commits[target[h]]
      /\ \A b \in Branches : b # target[h] => remote'[b] = remote[b]
  BY <1>1, <1>4 DEF PublishInv, PublishingTypeOK
<1>6. PublishingTypeOK'
  BY <1>1, <1>2, <1>3, <1>5 DEF PublishInv, PublishingTypeOK, checkout
<1>7. HooksInOrder'
  <2> SUFFICES ASSUME NEW k \in Hook, hook'[k] \in PastReading
               PROVE  /\ target[k] \in Branch
                      /\ k \notin moved => target[k] = head
                      /\ k \in calm => k \notin moved
                      /\ k \in calm /\ hook'[k] \in {"listing", "creating"} =>
                             remote'[target[k]] = commits[target[k]]
    BY <1>1 DEF HooksInOrder, checkout
  <2>1. hook[k] \in PastReading /\ (k # h => hook'[k] = hook[k])
    BY <1>1, <1>2 DEF PublishInv, PublishingTypeOK, PastReading
  <2>2. /\ target[k] \in Branch /\ target[k] \in Branches
        /\ k \notin moved => target[k] = head
        /\ k \in calm => k \notin moved
        /\ k \in calm /\ hook[k] \in {"listing", "creating"} => remote[target[k]] = commits[target[k]]
    BY <2>1, BranchesApart DEF PublishInv, HooksInOrder
  <2> QED
    BY <1>5, <2>1, <2>2
<1>8. CalmIsUnmoved' /\ ProtectedIsLeft'
  BY <1>1, <1>4, <1>5, BranchesApart DEF PublishInv, CalmIsUnmoved, ProtectedIsLeft
<1>9. QuietIsPublished'
  BY <1>1, <1>3, <1>5, BranchesApart DEF PublishInv, QuietIsPublished, checkout
<1> QED
  BY <1>6, <1>7, <1>8, <1>9 DEF PublishInv

\* A pull request is of the branch that was pushed.
LEMMA CreatesPullStep ==
    ASSUME PublishInv, NEW h \in Hook, CreatesPull(h)
    PROVE  PublishInv'
<1>1. /\ hook[h] = "creating" /\ head \in Branches /\ pulls' = pulls \cup {head}
      /\ strayed' = IF head # target[h] THEN strayed \cup {h} ELSE strayed
      /\ UNCHANGED <<checkout, remote, target, calm, moved>>
      /\ hook' = [hook EXCEPT ![h] = "idle"]
  BY DEF CreatesPull, Leaves, Goes
<1>2. caughtUp' \in BOOLEAN /\ (caughtUp' => caughtUp \/ h \in calm)
  BY Zenon DEF CreatesPull, Leaves, PublishInv, PublishingTypeOK
<1>3. /\ target[h] \in Branch /\ (h \notin moved => target[h] = head)
      /\ h \in calm => h \notin moved /\ remote[target[h]] = commits[target[h]]
  BY <1>1 DEF PublishInv, HooksInOrder, PastReading
<1>4. PublishingTypeOK'
  BY <1>1, <1>2 DEF PublishInv, PublishingTypeOK, checkout
<1>5. HooksInOrder'
  BY <1>1 DEF PublishInv, PublishingTypeOK, HooksInOrder, PastReading, checkout
<1>6. CalmIsUnmoved' /\ ProtectedIsLeft'
  BY <1>1, <1>3 DEF PublishInv, CalmIsUnmoved, ProtectedIsLeft
<1>7. QuietIsPublished'
  BY <1>1, <1>2, <1>3 DEF PublishInv, QuietIsPublished, checkout
<1> QED
  BY <1>4, <1>5, <1>6, <1>7 DEF PublishInv

\* Every step of the hooks keeps their invariant.
LEMMA PublishingStep == PublishInv /\ PublishingNext => PublishInv'
  BY AgentStep, HookStartsStep, HookReadsStep, PushesBranchStep, CreatesPullStep DEF PublishingNext

\* So does a step that leaves them alone.
LEMMA PublishingStutters == PublishInv /\ UNCHANGED publishing => PublishInv'
  BY DEF PublishInv, publishing, PublishingTypeOK, HooksInOrder, CalmIsUnmoved, QuietIsPublished,
         ProtectedIsLeft

(***************************************************************************)
(* The sockets of plugins (LocalEvents).                                   *)
(***************************************************************************)
\* A post that is read has the token of its lane, and is not too long.
ReadIsAllowed ==
    \A s \in Caller :
        /\ stands[s] = "idle" => arrived[s] = 0
        /\ stands[s] \in {"reading", "read"} =>
              post[s] \in SocketPosts /\ Capable(post[s]) /\ arrived[s] <= MaxBytes
        /\ stands[s] = "reading" => arrived[s] < post[s].chunks
        /\ stands[s] = "read" => arrived[s] = post[s].chunks

EventsInv == EventsTypeOK /\ ReadIsAllowed /\ MessageIsOfItsLane

\* What the proofs need of the typing.
LEMMA EventsTyped ==
    ASSUME EventsTypeOK
    PROVE  /\ lanes \in [Lane -> Kinds] /\ post \in [Caller -> {NoPost} \cup SocketPosts]
           /\ arrived \in [Caller -> 0..MaxChunks] /\ (\A s \in Caller : arrived[s] \in Nat)
           /\ stands \in [Caller -> {"idle", "reading", "read", "delivered", "passed", "over"}]
           /\ answer \in [Caller -> {0, 200, 400, 401, 413}]
           /\ reached \in [Caller -> Stamps]
  BY LocalEventsAssumption DEF EventsTypeOK

\* No post has arrived at first.
LEMMA EventsInitially == EventsInit => EventsInv
<1> SUFFICES ASSUME EventsInit PROVE EventsInv
  OBVIOUS
<1>1. NoMessage \in Stamps /\ 0 \in 0..MaxChunks
  BY LocalEventsAssumption DEF NoMessage, Stamps
<1>2. EventsTypeOK
  BY <1>1 DEF EventsInit, EventsTypeOK
<1>3. ReadIsAllowed /\ MessageIsOfItsLane
  BY DEF EventsInit, ReadIsAllowed, MessageIsOfItsLane
<1> QED
  BY <1>2, <1>3 DEF EventsInv

\* A step of one sender: the others' posts stay what and where they are.
Only(s) ==
    /\ UNCHANGED lanes
    /\ \A c \in Caller \ {s} : /\ post'[c] = post[c] /\ arrived'[c] = arrived[c]
                               /\ stands'[c] = stands[c] /\ reached'[c] = reached[c]

\* A step of one sender, given what it has to show of this sender only.
LEMMA SenderSteps ==
    ASSUME EventsInv, EventsTypeOK', NEW s \in Caller, Only(s), stands'[s] # "idle",
           stands'[s] \in {"reading", "read"} =>
               post'[s] \in SocketPosts /\ Capable(post'[s]) /\ arrived'[s] <= MaxBytes,
           stands'[s] = "reading" => arrived'[s] < post'[s].chunks,
           stands'[s] = "read" => arrived'[s] = post'[s].chunks,
           stands'[s] = "delivered" =>
               /\ Capable(post'[s]) /\ arrived'[s] = post'[s].chunks /\ arrived'[s] <= MaxBytes
               /\ reached'[s].source = post'[s].lane /\ reached'[s].inner # "source"
               /\ lanes[post'[s].lane] = "trigger" => reached'[s].type = "self-scheduler"
    PROVE  EventsInv'
<1>1. ReadIsAllowed'
  BY DEF EventsInv, ReadIsAllowed, Capable, Only
<1>2. MessageIsOfItsLane'
  BY DEF EventsInv, MessageIsOfItsLane, Capable, Only
<1> QED
  BY <1>1, <1>2 DEF EventsInv

\* An answer ends a post.
LEMMA Replies ==
    ASSUME EventsInv, NEW s \in Caller, NEW status \in {0, 200, 400, 401, 413}, ReplyWith(s, status)
    PROVE  /\ stands' \in [Caller -> {"idle", "reading", "read", "delivered", "passed", "over"}]
           /\ answer' \in [Caller -> {0, 200, 400, 401, 413}]
           /\ stands'[s] = "over" /\ \A c \in Caller \ {s} : stands'[c] = stands[c]
  BY EventsTyped DEF EventsInv, ReplyWith

\* A post that is let in has the token of its lane.
LEMMA PostArrivesStep ==
    ASSUME EventsInv, NEW s \in Caller, PostArrives(s)
    PROVE  EventsInv'
<1>1. PICK p \in Paths, l \in Lane, t \in Lane \cup {"none"}, n \in 1..MaxChunks, b \in Payloads :
          LET r == [path |-> p, lane |-> l, token |-> t, chunks |-> n, payload |-> b]
          IN  /\ p # "message" => n = 1
              /\ post' = [post EXCEPT ![s] = r]
              /\ IF p = "other" \/ (p = "liveness" /\ lanes[l] = "channel")
                 THEN stands' = [stands EXCEPT ![s] = "passed"] /\ UNCHANGED answer
                 ELSE IF ~Capable(r) THEN ReplyWith(s, 401)
                 ELSE IF p = "liveness" THEN ReplyWith(s, 200)
                 ELSE stands' = [stands EXCEPT ![s] = "reading"] /\ UNCHANGED answer
  BY Zenon DEF PostArrives
<1> DEFINE r == [path |-> p, lane |-> l, token |-> t, chunks |-> n, payload |-> b]
<1>2. r \in SocketPosts /\ r.chunks = n
  BY DEF SocketPosts
<1>3. UNCHANGED <<lanes, arrived, reached>> /\ stands[s] = "idle"
  BY DEF PostArrives
<1>4. post' = [post EXCEPT ![s] = r]
  BY <1>1
<1>5. \/ stands' = [stands EXCEPT ![s] = "passed"] /\ UNCHANGED answer
      \/ ReplyWith(s, 401) \/ ReplyWith(s, 200)
      \/ Capable(r) /\ stands' = [stands EXCEPT ![s] = "reading"] /\ UNCHANGED answer
  BY <1>1
<1> HIDE DEF r
<1>6. arrived[s] = 0 /\ 0 < n /\ 0 <= MaxBytes
  BY <1>3, LocalEventsAssumption DEF EventsInv, ReadIsAllowed
<1>7. /\ stands' \in [Caller -> {"idle", "reading", "read", "delivered", "passed", "over"}]
      /\ answer' \in [Caller -> {0, 200, 400, 401, 413}]
      /\ stands'[s] \in {"passed", "over", "reading"} /\ (stands'[s] = "reading" => Capable(r))
      /\ \A c \in Caller \ {s} : stands'[c] = stands[c]
  BY <1>5, Replies, EventsTyped DEF EventsInv
<1>8. /\ post' \in [Caller -> {NoPost} \cup SocketPosts] /\ post'[s] = r
      /\ \A c \in Caller \ {s} : post'[c] = post[c]
  BY <1>2, <1>4, EventsTyped DEF EventsInv
<1>9. EventsTypeOK'
  BY <1>3, <1>7, <1>8 DEF EventsInv, EventsTypeOK
<1>10. Only(s)
  BY <1>3, <1>7, <1>8 DEF Only
<1> QED
  BY <1>2, <1>3, <1>6, <1>7, <1>8, <1>9, <1>10, SenderSteps

\* A post that grows beyond the limit is refused.
LEMMA ReadsChunkStep ==
    ASSUME EventsInv, NEW s \in Caller, ReadsChunk(s)
    PROVE  EventsInv'
<1>1. /\ stands[s] = "reading" /\ UNCHANGED <<lanes, post, reached>>
      /\ arrived' = [arrived EXCEPT ![s] = arrived[s] + 1]
  BY DEF ReadsChunk
<1>2. /\ post[s] \in SocketPosts /\ Capable(post[s]) /\ arrived[s] < post[s].chunks
      /\ arrived[s] \in Nat /\ post[s].chunks \in 1..MaxChunks
  BY <1>1, EventsTyped DEF EventsInv, ReadIsAllowed, SocketPosts
<1>3. /\ arrived' \in [Caller -> 0..MaxChunks] /\ arrived'[s] = arrived[s] + 1
      /\ \A c \in Caller \ {s} : arrived'[c] = arrived[c]
  BY <1>1, <1>2, EventsTyped, LocalEventsAssumption DEF EventsInv
<1>4. CASE arrived[s] + 1 > MaxBytes
  <2>1. ReplyWith(s, 413)
    BY <1>3, <1>4 DEF ReadsChunk
  <2>2. /\ stands' \in [Caller -> {"idle", "reading", "read", "delivered", "passed", "over"}]
        /\ answer' \in [Caller -> {0, 200, 400, 401, 413}]
        /\ stands'[s] = "over" /\ \A c \in Caller \ {s} : stands'[c] = stands[c]
    BY <2>1, Replies
  <2>3. EventsTypeOK' /\ Only(s)
    BY <1>1, <1>3, <2>2 DEF EventsInv, EventsTypeOK, Only
  <2> QED
    BY <2>2, <2>3, SenderSteps
<1>5. CASE ~(arrived[s] + 1 > MaxBytes)
  <2>1. /\ stands' = [stands EXCEPT ![s] = IF arrived'[s] = post[s].chunks THEN "read" ELSE stands[s]]
        /\ UNCHANGED answer
    BY <1>3, <1>5 DEF ReadsChunk
  <2>2. /\ stands' \in [Caller -> {"idle", "reading", "read", "delivered", "passed", "over"}]
        /\ stands'[s] = IF arrived'[s] = post[s].chunks THEN "read" ELSE "reading"
        /\ \A c \in Caller \ {s} : stands'[c] = stands[c]
    BY <1>1, <2>1, EventsTyped DEF EventsInv
  <2>3. EventsTypeOK' /\ Only(s)
    BY <1>1, <1>3, <2>1, <2>2 DEF EventsInv, EventsTypeOK, Only
  <2>4. arrived'[s] <= MaxBytes /\ (stands'[s] = "reading" => arrived'[s] < post[s].chunks)
    BY <1>2, <1>3, <1>5, <2>2, LocalEventsAssumption
  <2> QED
    BY <1>1, <1>2, <2>2, <2>3, <2>4, SenderSteps
<1> QED
  BY <1>4, <1>5

\* A sender that goes away leaves no message.
LEMMA DisconnectsStep ==
    ASSUME EventsInv, NEW s \in Caller, Disconnects(s)
    PROVE  EventsInv'
<1>1. stands' = [stands EXCEPT ![s] = "over"] /\ UNCHANGED <<lanes, post, arrived, answer, reached>>
  BY DEF Disconnects
<1>2. /\ stands' \in [Caller -> {"idle", "reading", "read", "delivered", "passed", "over"}]
      /\ stands'[s] = "over" /\ \A c \in Caller \ {s} : stands'[c] = stands[c]
  BY <1>1, EventsTyped DEF EventsInv
<1>3. EventsTypeOK' /\ Only(s)
  BY <1>1, <1>2 DEF EventsInv, EventsTypeOK, Only
<1> QED
  BY <1>2, <1>3, SenderSteps

\* A stamp names the lane.
LEMMA StampsNameLane ==
    ASSUME NEW l \in Lane, lanes[l] \in Kinds, NEW b \in Payloads, ~Refused(l, b)
    PROVE  /\ Stamped(l, b) \in Stamps
           /\ Stamped(l, b).source = l /\ Stamped(l, b).inner # "source"
           /\ lanes[l] = "trigger" => Stamped(l, b).type = "self-scheduler"
<1>1. CASE lanes[l] = "channel"
  BY <1>1 DEF Stamped, Refused, ChannelRefuses, ChannelStamp, Payloads, Stamps
<1>2. CASE lanes[l] # "channel"
  BY <1>2 DEF Stamped, Refused, TriggerRefuses, TriggerStamp, Payloads, Stamps, Kinds
<1> QED
  BY <1>1, <1>2

\* A message that is delivered has the source of its post's lane.
LEMMA DeliversStep ==
    ASSUME EventsInv, NEW s \in Caller, Delivers(s)
    PROVE  EventsInv'
<1>1. /\ stands[s] = "read" /\ UNCHANGED <<lanes, post, arrived>>
      /\ post[s] \in SocketPosts /\ Capable(post[s]) /\ arrived[s] <= MaxBytes /\ arrived[s] = post[s].chunks
  BY DEF Delivers, EventsInv, ReadIsAllowed
<1>2. post[s].lane \in Lane /\ post[s].payload \in Payloads /\ lanes[post[s].lane] \in Kinds
  BY <1>1, EventsTyped DEF EventsInv, SocketPosts
<1>3. CASE post[s].payload.form = "broken" \/ Refused(post[s].lane, post[s].payload)
  <2>1. ReplyWith(s, 400) /\ UNCHANGED reached
    BY <1>3 DEF Delivers
  <2>2. /\ stands' \in [Caller -> {"idle", "reading", "read", "delivered", "passed", "over"}]
        /\ answer' \in [Caller -> {0, 200, 400, 401, 413}]
        /\ stands'[s] = "over" /\ \A c \in Caller \ {s} : stands'[c] = stands[c]
    BY <2>1, Replies
  <2>3. EventsTypeOK' /\ Only(s)
    BY <1>1, <2>1, <2>2 DEF EventsInv, EventsTypeOK, Only
  <2> QED
    BY <2>2, <2>3, SenderSteps
<1>4. CASE ~(post[s].payload.form = "broken" \/ Refused(post[s].lane, post[s].payload))
  <2> DEFINE m == Stamped(post[s].lane, post[s].payload)
  <2>1. /\ stands' = [stands EXCEPT ![s] = "delivered"] /\ UNCHANGED answer
        /\ reached' = [reached EXCEPT ![s] = m]
    BY <1>4 DEF Delivers
  <2>2. /\ m \in Stamps /\ m.source = post[s].lane /\ m.inner # "source"
        /\ lanes[post[s].lane] = "trigger" => m.type = "self-scheduler"
    BY <1>2, <1>4, StampsNameLane
  <2> HIDE DEF m
  <2>3. /\ stands' \in [Caller -> {"idle", "reading", "read", "delivered", "passed", "over"}]
        /\ stands'[s] = "delivered" /\ reached'[s] = m /\ reached' \in [Caller -> Stamps]
        /\ \A c \in Caller \ {s} : stands'[c] = stands[c] /\ reached'[c] = reached[c]
    BY <2>1, <2>2, EventsTyped DEF EventsInv
  <2>4. EventsTypeOK' /\ Only(s)
    BY <1>1, <2>1, <2>3 DEF EventsInv, EventsTypeOK, Only
  <2> QED
    BY <1>1, <2>2, <2>3, <2>4, SenderSteps
<1> QED
  BY <1>3, <1>4

\* Every step of the socket keeps its invariant.
LEMMA EventsStep == EventsInv /\ EventsNext => EventsInv'
  BY PostArrivesStep, ReadsChunkStep, DisconnectsStep, DeliversStep DEF EventsNext

\* So does a step that leaves the socket alone.
LEMMA EventsStutter == EventsInv /\ UNCHANGED events => EventsInv'
  BY DEF EventsInv, events, EventsTypeOK, ReadIsAllowed, MessageIsOfItsLane, Capable

(***************************************************************************)
(* All of them together.                                                   *)
(***************************************************************************)
\* The inductive invariant: that of every part, on the side of the agent and on
\* that of its workspace.
AgentInv == CallsInv /\ ServerInv /\ OversightInv /\ ReadinessInv
WorkspaceInv == SkillInv /\ PromptInv /\ AttachInv /\ PublishInv /\ EventsInv
ServicesInv == AgentInv /\ WorkspaceInv /\ focus \in Focus

\* Every part starts in its invariant.
LEMMA ServicesInitially == Init => ServicesInv
<1> SUFFICES ASSUME Init PROVE ServicesInv
  OBVIOUS
<1>1. AgentInv
  BY CallsInitially, ServerInitially, OversightInitially, ReadinessInitially DEF Init, AgentInv
<1>2. WorkspaceInv
  BY SkillsInitially, PromptInitially, AttachmentsInitially, PublishingInitially, EventsInitially
     DEF Init, WorkspaceInv
<1>3. focus \in Focus
  BY DEF Init
<1> QED
  BY <1>1, <1>2, <1>3 DEF ServicesInv

\* A step that leaves the agent's side alone keeps its invariants.
LEMMA AgentStutters == AgentInv /\ UNCHANGED agent => AgentInv'
  BY CallsStutter, ServerStutters, OversightStutters, ReadinessStutters DEF AgentInv, agent

\* A step that leaves the workspace's side alone keeps its invariants.
LEMMA WorkspaceStutters == WorkspaceInv /\ UNCHANGED workspace => WorkspaceInv'
  BY SkillsStutter, PromptStutters, AttachmentsStutter, PublishingStutters, EventsStutter
     DEF WorkspaceInv, workspace

\* A step of one part of the agent's side keeps the invariants of all.
LEMMA AgentPartSteps == AgentInv /\ InAgent => AgentInv'
<1> SUFFICES ASSUME AgentInv, InAgent PROVE AgentInv'
  OBVIOUS
<1>1. CASE /\ UNCHANGED <<server, oversight, readiness>>
           /\ DelegationNext \/ ErrandsNext \/ RecordsNext
  <2>1. CallsInv'
    BY <1>1, DelegationStep, ErrandsStep, RecordsStep DEF AgentInv, RecordsNext
  <2> QED
    BY <1>1, <2>1, ServerStutters, OversightStutters, ReadinessStutters DEF AgentInv
<1>2. CASE ServerNext /\ UNCHANGED <<oversight, readiness>>
  BY <1>2, ServerStep, OversightStutters, ReadinessStutters DEF AgentInv
<1>3. CASE /\ UNCHANGED <<calls, server, readiness>>
           /\ GatesNext \/ PausesNext \/ ScriptsNext
  <2>1. OversightInv'
    BY <1>3, GatesStep, PausesStep, ScriptsStep DEF AgentInv
  <2> QED
    BY <1>3, <2>1, CallsStutter, ServerStutters, ReadinessStutters DEF AgentInv
<1>4. CASE ReadinessNext /\ UNCHANGED <<calls, server, oversight>>
  BY <1>4, ReadinessStep, CallsStutter, ServerStutters, OversightStutters DEF AgentInv
<1> QED
  BY <1>1, <1>2, <1>3, <1>4 DEF InAgent

\* A step of one part of the workspace's side keeps the invariants of all.
LEMMA WorkspacePartSteps == WorkspaceInv /\ InWorkspace => WorkspaceInv'
<1> SUFFICES ASSUME WorkspaceInv, InWorkspace PROVE WorkspaceInv'
  OBVIOUS
<1>1. CASE /\ UNCHANGED <<prompt, attachments, publishing, events>>
           /\ SkillsNext \/ MaterializeSkills
  <2>1. SkillInv'
    BY <1>1, SkillsStep, SurfaceStep DEF WorkspaceInv
  <2> QED
    BY <1>1, <2>1, PromptStutters, AttachmentsStutter, PublishingStutters, EventsStutter DEF WorkspaceInv
<1>2. CASE PromptNext /\ UNCHANGED <<skills, attachments, publishing, events>>
  BY <1>2, PromptStep, SkillsStutter, AttachmentsStutter, PublishingStutters, EventsStutter
     DEF WorkspaceInv
<1>3. CASE AttachmentsNext /\ UNCHANGED <<skills, prompt, publishing, events>>
  BY <1>3, AttachmentsStep, SkillsStutter, PromptStutters, PublishingStutters, EventsStutter
     DEF WorkspaceInv
<1>4. CASE PublishingNext /\ UNCHANGED <<skills, prompt, attachments, events>>
  BY <1>4, PublishingStep, SkillsStutter, PromptStutters, AttachmentsStutter, EventsStutter
     DEF WorkspaceInv
<1>5. CASE EventsNext /\ UNCHANGED <<skills, prompt, attachments, publishing>>
  BY <1>5, EventsStep, SkillsStutter, PromptStutters, AttachmentsStutter, PublishingStutters
     DEF WorkspaceInv
<1> QED
  BY <1>1, <1>2, <1>3, <1>4, <1>5 DEF InWorkspace

\* What every reachable state of the services has: the facts the theorems rest on.
THEOREM ServicesInductive == Spec => []ServicesInv
<1>1. ServicesInv /\ Next => ServicesInv'
  BY AgentPartSteps, WorkspacePartSteps, AgentStutters, WorkspaceStutters DEF ServicesInv, Next
<1>2. ServicesInv /\ UNCHANGED vars => ServicesInv'
  BY AgentStutters, WorkspaceStutters DEF ServicesInv, vars
<1>3. ServicesInv /\ [Next]_vars => ServicesInv'
  BY <1>1, <1>2
<1> QED
  BY <1>3, ServicesInitially, PTL DEF Spec

\* The variables of all parts keep their types.
THEOREM ServicesTyped == Spec => []TypeOK
<1>1. ServicesInv => TypeOK
  BY DEF ServicesInv, AgentInv, WorkspaceInv, TypeOK, CallsInv, ServerInv, OversightInv,
         ReadinessInv, SkillInv, PromptInv, AttachInv, PublishInv, EventsInv
<1> QED
  BY <1>1, ServicesInductive, PTL

\* A task is accepted more often than once only for a broken connection or a
\* peer that queued it (a2a_client.py: send_a2a_message; tool_delegate_task).
THEOREM DelegatedOnce == Spec => []TwiceHasCause
<1>1. ServicesInv => TwiceHasCause
  BY AcceptedHasCause DEF ServicesInv, AgentInv
<1> QED
  BY <1>1, ServicesInductive, PTL

\* A reply is what the peer made of the task; a message that was sent took its
\* files along (a2a_tools_delegation.py, a2a_tools_messaging.py).
THEOREM RepliesHold == Spec => []ReplyIsReal
<1>1. ServicesInv => ReplyIsReal
  BY DEF ServicesInv, AgentInv, CallsInv, RepliesAreReal
<1> QED
  BY <1>1, ServicesInductive, PTL

\* No request of the host gets two answers, whichever of its streams closes
\* when (a2a_mcp_server.py: the queues of /mcp/stream).
THEOREM HostAnsweredOnce == Spec => []AnsweredOnce
<1>1. ServicesInv => AnsweredOnce
  BY DEF ServicesInv, AgentInv, ServerInv
<1> QED
  BY <1>1, ServicesInductive, PTL

\* A gated tool runs for an approval, or for a role that bypasses it
\* (builtin_tools/hitl.py: requires_approval).
THEOREM GatesHold == Spec => []RunsOnlyApproved
<1>1. ServicesInv => RunsOnlyApproved
  BY RunsHaveReason DEF ServicesInv, AgentInv
<1> QED
  BY <1>1, ServicesInductive, PTL

\* A heartbeat that says "ready" lists the verb, as long as its list is the
\* prober's and nothing was published between its reads (heartbeat.py).
THEOREM ReadyBeats == Spec => []ReadyIsObserved
<1>1. ServicesInv => ReadyIsObserved
  BY DEF ServicesInv, AgentInv, ReadinessInv
<1> QED
  BY <1>1, ServicesInductive, PTL

\* The set of fetches, the queues, the registry of pauses and the handles of
\* processes hold nothing without an owner.
THEOREM LeaksNothing == Spec => []NothingLeaks
<1>1. ServicesInv => NothingLeaks
  BY DEF ServicesInv, AgentInv, CallsInv, ServerInv, OversightInv, QueuesAreServed, NothingLeaks
<1> QED
  BY <1>1, ServicesInductive, PTL

\* The agent serves its skills as the watcher last saw them, and what is its own
\* at the place of the link stays (skill_loader/watcher.py; skills_render.py).
THEOREM SkillsServed == Spec => []SkillsAreServed
<1>1. ServicesInv => SkillsAreServed
  BY ServedAsSeen DEF ServicesInv, WorkspaceInv
<1> QED
  BY <1>1, ServicesInductive, PTL

\* Every note in the memory of the boot reaches the prompt, no older role trails
\* the one that was rendered, and a card without a role is withheld (prompt.py).
THEOREM PromptWhole == Spec => []PromptIsWhole
<1>1. ServicesInv => PromptIsWhole
  BY PromptHolds DEF ServicesInv, WorkspaceInv
<1> QED
  BY <1>1, ServicesInductive, PTL

\* Files, commits and messages arrive as what they are (executor_helpers.py;
\* channel_events.py).
THEOREM GarblesNothing == Spec => []NothingIsGarbled
<1>1. ServicesInv => NothingIsGarbled
  BY FilesDoArrive
     DEF ServicesInv, WorkspaceInv, PublishInv, EventsInv, NothingIsGarbled, WorkIsPublished
<1> QED
  BY <1>1, ServicesInductive, PTL
=============================================================================
