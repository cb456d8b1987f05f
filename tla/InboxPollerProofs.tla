--------------------------- MODULE InboxPollerProofs ---------------------------
(***************************************************************************)
(* RowsAreKept and NoLostWakeup for any number of workspaces that share a  *)
(* queue and a cache, and for any capacities and bounds.                   *)
(***************************************************************************)
EXTENDS InboxPoller, FiniteSetTheorems, SequenceTheorems, WellFoundedInduction, TLAPS

Covered(i) == Own(i) \/ i \in recorded \cup missed

(* A poller goes through its own rows, in order, up to the top of the      *)
(* response; the cursor is on disk before it acknowledges.                 *)
Polls(w) ==
  /\ batch[w] \subseteq RowsOf(w)
  /\ pc[w] = "idle" => batch[w] = {} /\ last[w] = 0 /\ top[w] = 0
  /\ pc[w] \in {"reading", "fetching"} => top[w] \in batch[w]
  /\ pc[w] \in {"saving", "acking"} => batch[w] = {} /\ last[w] = top[w] /\ top[w] \in RowsOf(w)
  /\ pc[w] = "acking" => disk[w] = top[w] /\ cursors[w] = top[w]
  /\ pc[w] = "fetching" => \A i \in Rows : NextRow(w, i) => log[i].kind = "upload"
  /\ pc[w] # "idle" => acked[w] <= top[w] /\ cursors[w] <= top[w]
  /\ \A i \in batch[w] : last[w] < i /\ cursors[w] < i /\ i <= top[w]

(* What is behind a cursor, or behind the top of a response and not in the *)
(* batch, is covered; what is recorded is behind the cursor or the poller. *)
Ledger(w) ==
  \A i \in RowsOf(w) :
    /\ i <= cursors[w] \/ i <= disk[w] \/ i <= acked[w] => Covered(i)
    /\ i <= top[w] => Covered(i) \/ i \in batch[w]
    /\ i \in once => i <= cursors[w] \/ i <= last[w]

(* The acknowledgement of a row is behind every cursor that is set.        *)
Behind(w) ==
  /\ acked[w] = 0 \/ acked[w] \in RowsOf(w)
  /\ cursors[w] # 0 => acked[w] <= cursors[w]
  /\ disk[w] # 0 => acked[w] <= disk[w]

(* A message names an upload of its own workspace.                         *)
About ==
  \A i \in 1..Len(log) : log[i].about = 0 \/ log[i].about \in RowsOf(log[i].ws)

(* An upload without an excuse is resolvable, or its poller waits for it.  *)
Resolved ==
  \A f \in Rows \ blamed :
    \/ f \in cache
    \/ /\ fetch[f] = "running" /\ f \in 1..Len(log)
       /\ pc[log[f].ws] = "fetching" /\ NextRow(log[f].ws, f)

(* A call that is about to block will find the event set.                  *)
Awake ==
  queue # <<>> => \A c \in Waiter : waits[c] # "blocked" /\ (waits[c] = "entering" => arrival)

IInv ==
  /\ TypeOK
  /\ \A w \in Workspace : Polls(w) /\ Ledger(w) /\ Behind(w)
  /\ once \subseteq 1..Len(log)
  /\ About /\ Resolved /\ Awake /\ OncePerRewind /\ RawHasCause

(* The bounds are natural numbers.                                         *)
LEMMA Bounds == /\ Capacity \in Nat /\ Page \in Nat /\ CacheSize \in Nat /\ MaxRows \in Nat
                /\ Capacity > 0 /\ Page > 0 /\ CacheSize > 0 /\ MaxCrashes \in Nat
  BY InboxAssumption

(* A set of numbers has a smallest one, and up to a bound a largest one.   *)
Less == {pair \in Nat \X Nat : pair[1] < pair[2]}

LEMMA LessIsWellFounded == IsWellFoundedOn(Less, Nat)
  BY NatLessThanWellFounded DEF OpToRel, Less

LEMMA Smallest ==
  ASSUME NEW T, T \subseteq Nat, T # {}
  PROVE  \E x \in T : \A y \in T : x <= y
  <1>1. PICK x \in T : \A y \in T : ~ (<<y, x>> \in Less)
    BY LessIsWellFounded, WFMin, Zenon
  <1> SUFFICES ASSUME NEW y \in T, ~ (x <= y) PROVE FALSE
    OBVIOUS
  <1>2. <<y, x>> \in Nat \X Nat /\ <<y, x>>[1] < <<y, x>>[2]
    OBVIOUS
  <1>3. <<y, x>> \in Less
    BY <1>2, Zenon DEF Less
  <1> QED
    BY <1>1, <1>3

LEMMA Largest ==
  ASSUME NEW n \in Nat, NEW S, S \subseteq 0..n, S # {}
  PROVE  \E i \in S : \A j \in S : j <= i
  <1> DEFINE T == {n - i : i \in S}
  <1>1. T # {}
    OBVIOUS
  <1>2. \A i \in S : i \in 0..n /\ n - i \in Nat
    OBVIOUS
  <1>3. T \subseteq Nat
    BY <1>2
  <1> HIDE DEF T
  <1>4. PICK x \in T : \A y \in T : x <= y
    BY <1>1, <1>3, Smallest, Zenon
  <1>5. PICK i \in S : x = n - i
    BY DEF T
  <1>6. \A j \in S : n - i <= n - j
    BY <1>4, <1>5 DEF T
  <1>7. \A j \in S : j <= i
    BY <1>2, <1>6
  <1> QED
    BY <1>7

(* The first rows that fit into a response leave none out before the last  *)
(* of them.                                                                *)
LEMMA OldestIsPrefix ==
  ASSUME NEW n \in Nat, NEW S, S \subseteq 1..n, NEW a \in Oldest(S), NEW b \in S, b < a
  PROVE  b \in Oldest(S)
  <1> USE Bounds
  <1> DEFINE A == {j \in S : j < a}
             B == {j \in S : j < b}
  <1>1. IsFiniteSet(S)
    <2>1. S \in SUBSET Nat /\ \A i \in S : i <= n
      OBVIOUS
    <2> QED
      BY <2>1, FS_BoundedSetOfNaturals
  <1>2. A \in SUBSET S /\ B \in SUBSET A
    <2>1. S \subseteq Nat
      OBVIOUS
    <2>2. a \in Nat /\ b \in Nat
      BY <2>1 DEF Oldest, Newest
    <2>3. ASSUME NEW j \in B PROVE j \in A
      BY <2>1, <2>2
    <2> QED
      BY <2>3
  <1> HIDE DEF A, B
  <1>3. IsFiniteSet(A)
    BY <1>1, <1>2, FS_Subset
  <1>4. Cardinality(B) <= Cardinality(A) /\ Cardinality(A) \in Nat /\ Cardinality(B) \in Nat
    BY <1>2, <1>3, FS_Subset, FS_CardinalityType
  <1> QED
    BY <1>4 DEF Oldest, A, B

(* The last ones leave none out after the first of them.                   *)
LEMMA NewestIsSuffix ==
  ASSUME NEW n \in Nat, NEW S, S \subseteq 1..n, NEW a \in Newest(S), NEW b \in S, a < b
  PROVE  b \in Newest(S)
  <1> USE Bounds
  <1> DEFINE A == {j \in S : j > a}
             B == {j \in S : j > b}
  <1>1. IsFiniteSet(S)
    <2>1. S \in SUBSET Nat /\ \A i \in S : i <= n
      OBVIOUS
    <2> QED
      BY <2>1, FS_BoundedSetOfNaturals
  <1>2. A \in SUBSET S /\ B \in SUBSET A
    <2>1. S \subseteq Nat
      OBVIOUS
    <2>2. a \in Nat /\ b \in Nat
      BY <2>1 DEF Oldest, Newest
    <2>3. ASSUME NEW j \in B PROVE j \in A
      BY <2>1, <2>2
    <2> QED
      BY <2>3
  <1> HIDE DEF A, B
  <1>3. IsFiniteSet(A)
    BY <1>1, <1>2, FS_Subset
  <1>4. Cardinality(B) <= Cardinality(A) /\ Cardinality(A) \in Nat /\ Cardinality(B) \in Nat
    BY <1>2, <1>3, FS_Subset, FS_CardinalityType
  <1> QED
    BY <1>4 DEF Newest, A, B

(* The rows of the log, and the queued ones.                               *)
Row == [ws : Workspace, kind : {"chat", "own", "upload"}, about : 0..MaxRows]

LEMMA LogTypes ==
  ASSUME TypeOK
  PROVE  /\ log \in Seq(Row) /\ Len(log) \in Nat /\ Len(log) <= MaxRows
         /\ 1..Len(log) \subseteq Rows
         /\ \A i \in 1..Len(log) : log[i] \in Row
         /\ queue \in Seq(1..Len(log)) /\ Len(queue) \in Nat /\ Len(queue) <= Capacity
         /\ \A k \in 1..Len(queue) : queue[k] \in 1..Len(log)
  <1> USE Bounds DEF TypeOK
  <1>1. log \in Seq(Row) /\ queue \in Seq(1..Len(log)) /\ Len(log) <= MaxRows /\ Len(queue) <= Capacity
    BY DEF Row
  <1> HIDE DEF TypeOK
  <1>2. Len(log) \in Nat /\ Len(queue) \in Nat
    BY <1>1
  <1>3. \A i \in 1..Len(log) : log[i] \in Row
    BY <1>1, ElementOfSeq
  <1>4. \A k \in 1..Len(queue) : queue[k] \in 1..Len(log)
    BY <1>1, ElementOfSeq
  <1> QED
    BY <1>1, <1>2, <1>3, <1>4 DEF Rows

LEMMA RowFields ==
  ASSUME NEW r \in Row
  PROVE  r.ws \in Workspace /\ r.about \in 0..MaxRows
  BY DEF Row

(* It holds of a new process.                                              *)
LEMMA InitIInv == Init => IInv
  <1> SUFFICES ASSUME Init PROVE IInv
    OBVIOUS
  <1> USE Bounds DEF Init
  <1>1. Len(log) = 0 /\ 1..Len(log) = {} /\ 0 \in 0..Len(log)
    OBVIOUS
  <1>2. TypeOK
    <2>1. Cardinality(cache) = 0
      BY FS_EmptySet
    <2>2. /\ acked \in [Workspace -> 0..Len(log)] /\ last \in [Workspace -> 0..Len(log)]
          /\ batch \in [Workspace -> SUBSET (1..Len(log))]
      BY <1>1
    <2>3. /\ fetch \in [Rows -> {"none", "running", "staged"}]
          /\ waits \in [Waiter -> {"no", "entering", "blocked"}]
          /\ pc \in [Workspace -> {"idle", "reading", "fetching", "saving", "acking"}]
      OBVIOUS
    <2>4. /\ log \in Seq([ws : Workspace, kind : {"chat", "own", "upload"}, about : 0..MaxRows])
          /\ queue \in Seq(1..Len(log))
      OBVIOUS
    <2>5. Len(queue) = 0 /\ 0 <= Capacity /\ 0 <= MaxRows
      OBVIOUS
    <2>6. /\ Len(queue) <= Capacity /\ arrival \in BOOLEAN
          /\ Len(log) <= MaxRows /\ aged \in 0..Len(log) /\ pruned \in 0..aged
      BY <1>1, <2>5
    <2>7. crashes \in 0..MaxCrashes
      OBVIOUS
    <2> QED
      BY <2>1, <2>2, <2>3, <2>4, <2>5, <2>6, <2>7 DEF TypeOK
  <1>3. \A w \in Workspace : RowsOf(w) = {}
    BY <1>1 DEF RowsOf
  <1>4. \A w \in Workspace : Polls(w) /\ Ledger(w) /\ Behind(w)
    BY <1>3 DEF Polls, Ledger, Behind
  <1>5. once \subseteq 1..Len(log) /\ About /\ Resolved /\ Awake /\ OncePerRewind /\ RawHasCause
    BY <1>1 DEF About, Resolved, Awake, OncePerRewind, RawHasCause
  <1> QED
    BY <1>2, <1>4, <1>5 DEF IInv

(* What a step of one workspace does not touch stays true of another.      *)
LEMMA Elsewhere ==
  ASSUME IInv, NEW w \in Workspace, NEW u \in Workspace \ {w},
         log' = log, recorded \subseteq recorded', missed \subseteq missed',
         pc'[u] = pc[u], batch'[u] = batch[u], last'[u] = last[u], top'[u] = top[u],
         cursors'[u] = cursors[u], disk'[u] = disk[u], acked'[u] = acked[u],
         \A i \in RowsOf(u) : i \in once' => i \in once
  PROVE  (Polls(u) /\ Ledger(u) /\ Behind(u))'
  <1>1. RowsOf(u)' = RowsOf(u) /\ \A i \in RowsOf(u) : Covered(i) => Covered(i)'
    BY DEF RowsOf, Covered, Own
  <1>2. \A i \in Rows : NextRow(u, i)' <=> NextRow(u, i)
    BY DEF NextRow
  <1>3. Polls(u)'
    BY <1>1, <1>2 DEF IInv, Polls
  <1>4. Ledger(u)'
    BY <1>1 DEF IInv, Ledger
  <1> QED
    BY <1>1, <1>3, <1>4 DEF IInv, Behind

(* The platform logs a row.                                                *)
LEMMA ArrivesStep ==
  ASSUME IInv, NEW w \in Workspace, Arrives(w)
  PROVE  IInv'
  <1> USE Bounds
  <1>0. UNCHANGED <<aged, pruned, acked, fetched, cursors, disk, queue, arrival, waits, pc, batch,
                    last, top, fetch, cache, crashes, recorded, missed, once, twice, blamed, raw>>
    BY DEF Arrives, position, inbox, poller, uploads, ghosts
  <1>1. log \in Seq(Row) /\ Len(log) \in Nat /\ Len(log) < MaxRows
    BY LogTypes DEF IInv, Arrives
  <1>2. PICK r \in Row : log' = Append(log, r) /\ r.ws = w /\ (r.about = 0 \/ r.about \in RowsOf(w))
    <2>1. \A about \in Files \cap RowsOf(w) : about \in 0..MaxRows
      BY <1>1 DEF RowsOf
    <2>2. CASE \E about \in {0} \cup (Files \cap RowsOf(w)) :
                 log' = Append(log, [ws |-> w, kind |-> "chat", about |-> about])
      <3>1. PICK about \in {0} \cup (Files \cap RowsOf(w)) :
                 log' = Append(log, [ws |-> w, kind |-> "chat", about |-> about])
        BY <2>2
      <3>2. [ws |-> w, kind |-> "chat", about |-> about] \in Row
        BY <2>1 DEF Row
      <3> QED
        BY <3>1, <3>2
    <2>3. CASE log' = Append(log, [ws |-> w, kind |-> "upload", about |-> 0])
      BY <2>3 DEF Row
    <2>4. CASE log' = Append(log, [ws |-> w, kind |-> "own", about |-> 0])
      BY <2>4 DEF Row
    <2> QED
      BY <2>2, <2>3, <2>4 DEF Arrives
  <1>3. /\ log' \in Seq(Row) /\ Len(log') = Len(log) + 1
        /\ log'[Len(log) + 1] = r
        /\ \A i \in 1..Len(log) : log'[i] = log[i]
    BY <1>1, <1>2
  <1>4. 1..Len(log') = 1..Len(log) \cup {Len(log) + 1} /\ 0..Len(log) \subseteq 0..Len(log')
    BY <1>1, <1>3
  <1>5. \A u \in Workspace : \A i \in 1..Len(log) : i \in RowsOf(u)' <=> i \in RowsOf(u)
    BY <1>3, <1>4 DEF RowsOf
  <1>6. \A u \in Workspace : RowsOf(u) \subseteq RowsOf(u)' /\ RowsOf(u) \subseteq 1..Len(log)
                             /\ RowsOf(u)' \subseteq 1..Len(log')
    BY <1>5 DEF RowsOf
  <1>7. TypeOK'
    <2>1. 1..Len(log) \subseteq 1..Len(log') /\ Len(log') <= MaxRows
      BY <1>1, <1>3, <1>4
    <2>2. aged \in 0..Len(log')
      BY <1>4 DEF IInv, TypeOK
    <2>3. \A f \in [Workspace -> 0..Len(log)] : f \in [Workspace -> 0..Len(log')]
      BY <1>4
    <2>4. batch \in [Workspace -> SUBSET (1..Len(log'))]
      BY <2>1 DEF IInv, TypeOK
    <2>5. queue \in Seq(1..Len(log'))
      <3>1. queue \in Seq(1..Len(log))
        BY LogTypes DEF IInv
      <3> QED
        BY <2>1, <3>1, SeqMonotonic
    <2>6. log' \in Seq([ws : Workspace, kind : {"chat", "own", "upload"}, about : 0..MaxRows])
      BY <1>3 DEF Row
    <2> QED
      BY <1>0, <2>6, <2>1, <2>2, <2>3, <2>4, <2>5 DEF IInv, TypeOK
  <1>8. ASSUME NEW u \in Workspace PROVE (Polls(u) /\ Ledger(u) /\ Behind(u))'
    <2>1. /\ acked[u] \in 0..Len(log) /\ disk[u] \in 0..Len(log) /\ cursors[u] \in 0..Len(log)
          /\ last[u] \in 0..Len(log) /\ top[u] \in 0..Len(log) /\ batch[u] \subseteq 1..Len(log)
      BY DEF IInv, TypeOK
    <2>2. \A i \in 1..Len(log) : Covered(i)' <=> Covered(i)
      BY <1>0, <1>3 DEF Covered, Own
    <2>3. \A i \in Rows : NextRow(u, i)' <=> NextRow(u, i)
      BY <1>0 DEF NextRow
    <2>4. Polls(u)'
      BY <1>0, <1>3, <1>6, <2>1, <2>3 DEF IInv, Polls, NextRow
    <2>5. Ledger(u)'
      <3> SUFFICES ASSUME NEW i \in RowsOf(u)'
                   PROVE  /\ i <= cursors[u] \/ i <= disk[u] \/ i <= acked[u] => Covered(i)'
                          /\ i <= top[u] => Covered(i)' \/ i \in batch[u]
                          /\ i \in once => i <= cursors[u] \/ i <= last[u]
        BY <1>0 DEF Ledger
      <3>1. CASE i \in 1..Len(log)
        BY <3>1, <1>5, <2>2 DEF IInv, Ledger
      <3>2. CASE i = Len(log) + 1
        BY <3>2, <1>1, <2>1 DEF IInv
      <3> QED
        BY <3>1, <3>2, <1>4, <1>6
    <2>6. Behind(u)'
      BY <1>0, <1>6 DEF IInv, Behind
    <2> QED
      BY <2>4, <2>5, <2>6
  <1>9. About'
    <2> SUFFICES ASSUME NEW i \in 1..Len(log'), log'[i].about # 0
                 PROVE  /\ log'[i].about \in 1..Len(log')
                        /\ log'[log'[i].about].ws = log'[i].ws
      BY DEF About, RowsOf
    <2>1. CASE i \in 1..Len(log)
      <3>1. log'[i] = log[i]
        BY <2>1, <1>3
      <3>2. log[i].about \in 1..Len(log) /\ log[log[i].about].ws = log[i].ws
        BY <2>1, <3>1 DEF IInv, About, RowsOf
      <3> QED
        BY <3>1, <3>2, <1>3, <1>4
    <2>2. CASE i = Len(log) + 1
      <3>1. r.about \in 1..Len(log) /\ log[r.about].ws = w
        BY <2>2, <1>2, <1>3 DEF RowsOf
      <3> QED
        BY <2>2, <3>1, <1>2, <1>3, <1>4
    <2> QED
      BY <2>1, <2>2, <1>4
  <1>10. Resolved'
    BY <1>0, <1>3, <1>4 DEF IInv, Resolved, NextRow
  <1>11. Awake' /\ OncePerRewind' /\ RawHasCause' /\ once' \subseteq 1..Len(log')
    BY <1>0, <1>4 DEF IInv, Awake, OncePerRewind, RawHasCause
  <1> QED
    BY <1>7, <1>8, <1>9, <1>10, <1>11 DEF IInv

(* Rows age, and are pruned.                                               *)
LEMMA PlatformStep ==
  ASSUME IInv, Ages \/ Prunes
  PROVE  IInv'
  <1> USE Bounds
  <1>0. /\ UNCHANGED <<log, acked, fetched, cursors, disk, queue, arrival, waits, pc, batch,
                       last, top, fetch, cache, crashes, recorded, once, twice, blamed, raw>>
        /\ missed \subseteq missed'
    BY DEF Ages, Prunes, position, inbox, poller, uploads, ghosts
  <1>1. TypeOK'
    <2>1. aged' \in 0..Len(log) /\ pruned' \in 0..aged'
      <3>1. aged \in 0..Len(log) /\ pruned \in 0..aged /\ Len(log) \in Nat
        BY LogTypes DEF IInv, TypeOK
      <3>2. CASE Ages
        BY <3>1, <3>2 DEF Ages
      <3>3. CASE Prunes
        BY <3>1, <3>3 DEF Prunes
      <3> QED
        BY <3>2, <3>3
    <2>2. missed' \subseteq Rows
      <3>1. missed \subseteq Rows /\ (Prunes => pruned' \in Rows)
        <4>1. missed \subseteq Rows /\ aged \in 0..Len(log) /\ pruned \in 0..aged
          BY DEF IInv, TypeOK
        <4>2. Prunes => pruned' = pruned + 1 /\ pruned < aged
          BY DEF Prunes
        <4> QED
          BY <4>1, <4>2, LogTypes DEF IInv, Rows
      <3>2. Ages => missed' = missed
        BY DEF Ages, ghosts
      <3>3. Prunes => missed' \in {missed, missed \cup {pruned'}}
        BY DEF Prunes
      <3> QED
        BY <3>1, <3>2, <3>3
    <2> QED
      BY <1>0, <2>1, <2>2 DEF IInv, TypeOK
  <1>2. \A w \in Workspace : RowsOf(w)' = RowsOf(w)
    BY <1>0 DEF RowsOf
  <1>3. \A w \in Workspace : Polls(w)' /\ Behind(w)'
    BY <1>0, <1>2 DEF IInv, Polls, Behind, NextRow
  <1>4. \A w \in Workspace : Ledger(w)'
    BY <1>0, <1>2 DEF IInv, Ledger, Covered, Own
  <1>5. About' /\ Resolved' /\ Awake' /\ OncePerRewind' /\ RawHasCause'
    BY <1>0, <1>2 DEF IInv, About, RowsOf, Resolved, NextRow, Awake, OncePerRewind, RawHasCause
  <1> QED
    BY <1>0, <1>1, <1>3, <1>4, <1>5 DEF IInv

(* What an action of a workspace finds.                                    *)
LEMMA Finds ==
  ASSUME IInv, NEW w \in Workspace
  PROVE  /\ Len(log) \in Nat /\ 1..Len(log) \subseteq Rows
         /\ acked[w] \in 0..Len(log) /\ disk[w] \in 0..Len(log) /\ cursors[w] \in 0..Len(log)
         /\ last[w] \in 0..Len(log) /\ top[w] \in 0..Len(log)
         /\ batch[w] \subseteq 1..Len(log) /\ RowsOf(w) \subseteq 1..Len(log)
         /\ Polls(w) /\ Ledger(w) /\ Behind(w)
  BY LogTypes DEF IInv, TypeOK, RowsOf

(* A response that goes on where the cursor stands, or that the platform   *)
(* has cut off.                                                            *)
LEMMA ReadsStep ==
  ASSUME IInv, NEW w \in Workspace, NEW rows, rows \subseteq RowsOf(w),
         pc[w] = "idle", Reads(w, rows),
         UNCHANGED <<platform, position, inbox, uploads, crashes, recorded, once, twice, blamed, raw>>,
         missed \subseteq missed', missed' \subseteq Rows,
         \A i \in rows : i > cursors[w],
         \A i \in RowsOf(w), j \in rows : i <= j => Covered(i)' \/ i \in rows,
         \A t \in rows : (\A j \in rows : j <= t) => acked[w] <= t
  PROVE  IInv'
  <1>0. /\ UNCHANGED <<log, aged, pruned, acked, fetched, cursors, disk, queue, arrival, waits,
                       fetch, cache, crashes, recorded, once, twice, blamed, raw>>
    BY DEF platform, position, inbox, uploads
  <1>1. /\ Len(log) \in Nat /\ rows \subseteq 1..Len(log) /\ Polls(w) /\ Ledger(w) /\ Behind(w)
        /\ RowsOf(w)' = RowsOf(w)
    BY <1>0, Finds DEF RowsOf
  <1> DEFINE t == IF rows = {} THEN 0 ELSE CHOOSE i \in rows : \A j \in rows : j <= i
  <1>2. /\ pc' = [pc EXCEPT ![w] = IF rows = {} THEN "idle" ELSE "reading"]
        /\ batch' = [batch EXCEPT ![w] = rows]
        /\ last' = [last EXCEPT ![w] = 0]
        /\ top' = [top EXCEPT ![w] = t]
    BY DEF Reads
  <1>3. /\ rows = {} => t = 0
        /\ rows # {} => t \in rows /\ \A j \in rows : j <= t
    <2>1. CASE rows = {}
      BY <2>1
    <2>2. CASE rows # {}
      <3>1. rows \subseteq 0..Len(log)
        BY <1>1
      <3>2. \E i \in rows : \A j \in rows : j <= i
        BY <1>1, <2>2, <3>1, Largest
      <3> QED
        BY <2>2, <3>2
    <2> QED
      BY <2>1, <2>2
  <1> HIDE DEF t
  <1>4. t \in 0..Len(log) /\ 0 \in 0..Len(log)
    BY <1>1, <1>3
  <1>5. TypeOK'
    <2>1. /\ pc' \in [Workspace -> {"idle", "reading", "fetching", "saving", "acking"}]
          /\ batch' \in [Workspace -> SUBSET (1..Len(log))]
          /\ last' \in [Workspace -> 0..Len(log)] /\ top' \in [Workspace -> 0..Len(log)]
      BY <1>1, <1>2, <1>4 DEF IInv, TypeOK
    <2>2. /\ {acked', disk', cursors'} \subseteq [Workspace -> 0..Len(log')]
          /\ {recorded', missed', once', twice', blamed', raw'} \subseteq SUBSET Rows
      BY <1>0 DEF IInv, TypeOK
    <2> QED
      BY <1>0, <2>1, <2>2 DEF IInv, TypeOK
  <1>6. /\ pc'[w] = (IF rows = {} THEN "idle" ELSE "reading")
        /\ batch'[w] = rows /\ last'[w] = 0 /\ top'[w] = t
        /\ \A u \in Workspace \ {w} : /\ pc'[u] = pc[u] /\ batch'[u] = batch[u]
                                       /\ last'[u] = last[u] /\ top'[u] = top[u]
    BY <1>2 DEF IInv, TypeOK
  <1>7. Polls(w)'
    <2>1. acked[w] \in 0..Len(log) /\ cursors[w] \in 0..Len(log) /\ last[w] \in 0..Len(log)
      BY Finds
    <2>2. rows # {} => acked[w] <= t /\ cursors[w] <= t
      BY <1>1, <1>3, <2>1
    <2> QED
      BY <1>0, <1>1, <1>3, <1>6, <2>1, <2>2 DEF Polls
  <1>8. Ledger(w)'
    <2> SUFFICES ASSUME NEW i \in RowsOf(w)
                 PROVE  /\ i <= cursors[w] \/ i <= disk[w] \/ i <= acked[w] => Covered(i)'
                        /\ i <= t => Covered(i)' \/ i \in rows
                        /\ i \in once => i <= cursors[w] \/ i <= 0
      BY <1>0, <1>1, <1>6 DEF Ledger
    <2>1. Covered(i) => Covered(i)'
      BY <1>0 DEF Covered, Own
    <2>2. i \in 1..Len(log)
      BY Finds
    <2>3. i <= t => rows # {}
      BY <1>3, <2>2
    <2> QED
      BY <1>1, <1>3, <2>1, <2>2, <2>3 DEF Ledger, Polls
  <1>9. Behind(w)'
    BY <1>0, <1>1 DEF Behind
  <1>10. \A u \in Workspace : (Polls(u) /\ Ledger(u) /\ Behind(u))'
    BY <1>0, <1>6, <1>7, <1>8, <1>9, Elsewhere
  <1>11. Resolved'
    <2> SUFFICES ASSUME NEW f \in Rows \ blamed, f \notin cache
                 PROVE  /\ fetch[f] = "running" /\ f \in 1..Len(log)
                        /\ pc'[log[f].ws] = "fetching" /\ NextRow(log[f].ws, f)'
      BY <1>0 DEF Resolved
    <2>1. /\ fetch[f] = "running" /\ f \in 1..Len(log)
          /\ pc[log[f].ws] = "fetching" /\ NextRow(log[f].ws, f)
      BY DEF IInv, Resolved
    <2>2. log[f].ws \in Workspace
      BY <2>1, LogTypes, RowFields DEF IInv
    <2>3. log[f].ws # w
      BY <2>1
    <2> QED
      BY <1>0, <1>6, <2>1, <2>2, <2>3 DEF NextRow
  <1>12. About' /\ Awake' /\ OncePerRewind' /\ RawHasCause' /\ once' \subseteq 1..Len(log')
    BY <1>0 DEF IInv, About, RowsOf, Awake, OncePerRewind, RawHasCause
  <1> QED
    BY <1>5, <1>10, <1>11, <1>12 DEF IInv

(* The three answers to a poll.                                            *)
LEMMA PollStep1 ==
  ASSUME IInv, NEW w \in Workspace, PollAfterCursor(w) \/ PollWindow(w) \/ PollGone(w)
  PROVE  IInv'
  <1>0. /\ Len(log) \in Nat /\ Polls(w) /\ Ledger(w) /\ Behind(w)
        /\ acked[w] \in 0..Len(log) /\ cursors[w] \in 0..Len(log) /\ disk[w] \in 0..Len(log)
        /\ RowsOf(w) \subseteq 1..Len(log) /\ pruned \in Nat /\ aged \in Nat
        /\ 1..Len(log) \subseteq Rows /\ missed \subseteq Rows
    <2>1. aged \in Nat /\ pruned \in Nat /\ missed \subseteq Rows
      BY LogTypes DEF IInv, TypeOK
    <2> QED
      BY <2>1, Finds
  <1>1. CASE PollAfterCursor(w)
    <2> DEFINE S == {i \in RowsOf(w) : i > cursors[w]}
    <2>1. /\ Reads(w, Oldest(S)) /\ pc[w] = "idle" /\ cursors[w] > pruned
          /\ UNCHANGED <<platform, position, inbox, uploads, crashes, recorded, once, twice, blamed,
                         raw, missed>>
      BY <1>1 DEF PollAfterCursor, ghosts
    <2>2. S \subseteq 1..Len(log) /\ Oldest(S) \subseteq S
      BY <1>0 DEF Oldest
    <2>3. ASSUME NEW i \in RowsOf(w), NEW j \in Oldest(S), i <= j
          PROVE  Covered(i)' \/ i \in Oldest(S)
      <3>1. CASE i <= cursors[w]
        BY <1>0, <2>1, <3>1 DEF Ledger, Covered, Own, platform
      <3>2. CASE i = j
        BY <3>2
      <3>3. CASE i > cursors[w] /\ i < j
        BY <1>0, <2>2, <3>3, OldestIsPrefix
      <3> QED
        BY <1>0, <2>2, <2>3, <3>1, <3>2, <3>3
    <2>4. ASSUME NEW t \in Oldest(S) PROVE acked[w] <= t /\ t > cursors[w]
      BY <1>0, <2>1, <2>2 DEF Behind
    <2> HIDE DEF S
    <2>5. Oldest(S) \subseteq RowsOf(w)
      BY <2>2 DEF S
    <2> QED
      BY <1>0, <2>1, <2>3, <2>4, <2>5, ReadsStep
  <1>2. CASE PollWindow(w)
    <2> DEFINE S == {i \in RowsOf(w) : i > aged}
    <2>1. /\ Reads(w, Newest(S)) /\ pc[w] = "idle" /\ cursors[w] = 0
          /\ UNCHANGED <<platform, position, inbox, uploads, crashes, recorded, once, twice, blamed, raw>>
          /\ missed' = missed \cup (RowsOf(w) \ Newest(S))
      BY <1>2 DEF PollWindow
    <2>2. S \subseteq 1..Len(log) /\ Newest(S) \subseteq S
      BY <1>0 DEF Newest
    <2>3. \A i \in RowsOf(w), j \in Newest(S) : i <= j => Covered(i)' \/ i \in Newest(S)
      BY <2>1 DEF Covered
    <2>4. ASSUME NEW t \in Newest(S), \A j \in Newest(S) : j <= t PROVE acked[w] <= t
      <3> SUFFICES ASSUME t < acked[w] PROVE FALSE
        BY <1>0, <2>2
      <3>1. acked[w] \in S
        BY <1>0, <2>2 DEF Behind
      <3>2. acked[w] \in Newest(S)
        BY <1>0, <2>2, <3>1, NewestIsSuffix
      <3> QED
        BY <1>0, <2>2, <2>4, <3>2
    <2>5. \A i \in Newest(S) : i > cursors[w]
      BY <2>1, <2>2
    <2>6. Newest(S) \subseteq RowsOf(w)
      BY <2>2
    <2> HIDE DEF S
    <2>7. missed \subseteq missed' /\ missed' \subseteq Rows
      BY <1>0, <2>1
    <2> QED
      BY <2>1, <2>3, <2>4, <2>5, <2>6, <2>7, ReadsStep
  <1>3. CASE PollGone(w)
    <2>0. /\ UNCHANGED <<log, aged, pruned, acked, fetched, queue, arrival, waits, pc, batch, last, top,
                         fetch, cache, crashes, recorded, missed, twice, blamed, raw>>
          /\ pc[w] = "idle"
          /\ cursors' = [cursors EXCEPT ![w] = 0]
          /\ \E d \in {0, disk[w]} : disk' = [disk EXCEPT ![w] = d]
          /\ once' = once \ RowsOf(w)
      BY <1>3 DEF PollGone, platform, inbox, poller, uploads
    <2>1. TypeOK'
      <3>1. cursors' \in [Workspace -> 0..Len(log)] /\ disk' \in [Workspace -> 0..Len(log)]
        BY <1>0, <2>0 DEF IInv, TypeOK
      <3>2. /\ {acked', last', top'} \subseteq [Workspace -> 0..Len(log')]
            /\ {recorded', missed', once', twice', blamed', raw'} \subseteq SUBSET Rows
        <4>1. /\ {acked, last, top} \subseteq [Workspace -> 0..Len(log)]
              /\ {recorded, missed, once, twice, blamed, raw} \subseteq SUBSET Rows
          BY <1>0 DEF IInv, TypeOK
        <4>2. /\ {acked', last', top'} = {acked, last, top} /\ log' = log
              /\ {recorded', missed', twice', blamed', raw'} = {recorded, missed, twice, blamed, raw}
              /\ once' \subseteq once
          BY <2>0
        <4> QED
          BY <4>1, <4>2
      <3>3. /\ queue' \in Seq(1..Len(log')) /\ Len(queue') <= Capacity /\ Cardinality(cache') <= CacheSize
            /\ log' \in Seq([ws : Workspace, kind : {"chat", "own", "upload"}, about : 0..MaxRows])
            /\ {fetched', cache'} \subseteq SUBSET Rows
        BY <2>0 DEF IInv, TypeOK
      <3>4. UNCHANGED <<log, aged, pruned, arrival, waits, pc, batch, fetch, crashes>>
        BY <2>0
      <3> QED
        BY <3>1, <3>2, <3>3, <3>4 DEF IInv, TypeOK
    <2>2. /\ cursors'[w] = 0 /\ disk'[w] \in {0, disk[w]}
          /\ \A u \in Workspace \ {w} : cursors'[u] = cursors[u] /\ disk'[u] = disk[u]
      BY <2>0 DEF IInv, TypeOK
    <2>3. RowsOf(w)' = RowsOf(w) /\ \A i \in RowsOf(w) : Covered(i)' <=> Covered(i)
      BY <2>0 DEF RowsOf, Covered, Own
    <2>4. (Polls(w) /\ Ledger(w) /\ Behind(w))'
      BY <1>0, <2>0, <2>2, <2>3 DEF Polls, Ledger, Behind
    <2>5. \A u \in Workspace : (Polls(u) /\ Ledger(u) /\ Behind(u))'
      BY <2>0, <2>2, <2>4, Elsewhere
    <2>6. About' /\ Resolved' /\ Awake' /\ OncePerRewind' /\ RawHasCause' /\ once' \subseteq 1..Len(log')
      BY <2>0 DEF IInv, About, RowsOf, Resolved, NextRow, Awake, OncePerRewind, RawHasCause
    <2> QED
      BY <2>1, <2>5, <2>6 DEF IInv
  <1> QED
    BY <1>1, <1>2, <1>3

(* What the queue and its waiters are after row i was recorded.            *)
LEMMA RecordsKeep ==
  ASSUME IInv, NEW i \in 1..Len(log), NEW gaveUp, gaveUp \subseteq Rows, Records(i, gaveUp),
         i \notin once,
         Subject(i) \in Rows => Subject(i) \in cache \cup blamed \cup gaveUp
  PROVE  /\ queue' \in Seq(1..Len(log)) /\ Len(queue') <= Capacity /\ arrival' \in BOOLEAN
         /\ waits' \in [Waiter -> {"no", "entering", "blocked"}]
         /\ recorded' = recorded \cup {i} /\ once' = once \cup {i}
         /\ twice' = {} /\ raw' = {} /\ blamed' = blamed \cup gaveUp
         /\ Awake'
  <1> USE Bounds
  <1>1. /\ queue \in Seq(1..Len(log)) /\ Len(queue) \in Nat /\ Len(queue) <= Capacity
        /\ arrival \in BOOLEAN /\ waits \in [Waiter -> {"no", "entering", "blocked"}]
        /\ twice = {} /\ raw = {}
    BY LogTypes DEF IInv, TypeOK, OncePerRewind, RawHasCause
  <1>2. /\ recorded' = recorded \cup {i} /\ once' = once \cup {i} /\ blamed' = blamed \cup gaveUp
        /\ twice' = {} /\ raw' = {}
    BY <1>1 DEF Records, StaysBare
  <1>3. CASE i \in Queued
    <2>1. UNCHANGED <<queue, arrival, waits>>
      BY <1>3 DEF Records, inbox
    <2> QED
      BY <1>1, <1>2, <2>1 DEF IInv, Awake
  <1>4. CASE i \notin Queued
    <2>1. /\ queue' = Enqueued(i) /\ arrival' = TRUE
          /\ waits' = [c \in Waiter |-> IF waits[c] = "blocked" THEN "no" ELSE waits[c]]
      BY <1>4 DEF Records
    <2>2. waits' \in [Waiter -> {"no", "entering", "blocked"}] /\ \A c \in Waiter : waits'[c] # "blocked"
      BY <1>1, <2>1
    <2>3. Enqueued(i) \in Seq(1..Len(log)) /\ Len(Enqueued(i)) <= Capacity
      <3>1. CASE Len(queue) = Capacity
        <4>1. queue # <<>>
          BY <1>1, <3>1
        <4>2. Tail(queue) \in Seq(1..Len(log)) /\ Len(Tail(queue)) = Len(queue) - 1
          BY <1>1, <4>1, HeadTailProperties
        <4>3. Enqueued(i) = Append(Tail(queue), i)
          BY <3>1 DEF Enqueued
        <4> QED
          BY <3>1, <4>2, <4>3, AppendProperties
      <3>2. CASE Len(queue) # Capacity
        <4>1. Enqueued(i) = Append(queue, i)
          BY <3>2 DEF Enqueued
        <4> QED
          BY <1>1, <3>2, <4>1, AppendProperties
      <3> QED
        BY <3>1, <3>2
    <2> QED
      BY <1>2, <2>1, <2>2, <2>3 DEF Awake
  <1> QED
    BY <1>3, <1>4

(* A poller is done with its next row.                                     *)
LEMMA PassStep ==
  ASSUME IInv, NEW w \in Workspace, NEW i \in Rows, NextRow(w, i), Passes(w, i),
         pc[w] \in {"reading", "fetching"},
         UNCHANGED <<platform, position, uploads, crashes, missed>>,
         queue' \in Seq(1..Len(log)), Len(queue') <= Capacity, arrival' \in BOOLEAN,
         waits' \in [Waiter -> {"no", "entering", "blocked"}], Awake',
         recorded \subseteq recorded', recorded' \subseteq Rows, Own(i) \/ i \in recorded',
         once' \subseteq once \cup {i}, twice' = {}, raw' = {},
         blamed \subseteq blamed', blamed' \subseteq Rows,
         pc[w] = "fetching" => i \in cache \cup blamed'
  PROVE  IInv'
  <1>0. UNCHANGED <<log, aged, pruned, acked, fetched, cursors, disk, fetch, cache, crashes, missed, top>>
    BY DEF platform, position, uploads, Passes
  <1>1. /\ Len(log) \in Nat /\ Polls(w) /\ Ledger(w) /\ Behind(w)
        /\ acked[w] \in 0..Len(log) /\ cursors[w] \in 0..Len(log) /\ top[w] \in 0..Len(log)
        /\ last[w] \in 0..Len(log)
        /\ RowsOf(w) \subseteq 1..Len(log) /\ batch[w] \subseteq 1..Len(log)
        /\ 1..Len(log) \subseteq Rows
    BY Finds
  <1>2. /\ i \in batch[w] /\ i \in RowsOf(w) /\ i \in 1..Len(log) /\ top[w] \in batch[w]
        /\ last[w] < i /\ cursors[w] < i /\ i <= top[w] /\ \A j \in batch[w] : i <= j
    BY <1>1 DEF NextRow, Polls
  <1>3. /\ batch' = [batch EXCEPT ![w] = @ \ {i}]
        /\ last' = [last EXCEPT ![w] = i]
        /\ pc' = [pc EXCEPT ![w] = IF batch[w] = {i} THEN "saving" ELSE "reading"]
    BY DEF Passes
  <1>4. /\ batch'[w] = batch[w] \ {i} /\ last'[w] = i
        /\ pc'[w] = (IF batch[w] = {i} THEN "saving" ELSE "reading")
        /\ \A u \in Workspace \ {w} : pc'[u] = pc[u] /\ batch'[u] = batch[u] /\ last'[u] = last[u]
    BY <1>3 DEF IInv, TypeOK
  <1>5. TypeOK'
    <2>1. /\ pc' \in [Workspace -> {"idle", "reading", "fetching", "saving", "acking"}]
          /\ batch' \in [Workspace -> SUBSET (1..Len(log))]
      BY <1>2, <1>3 DEF IInv, TypeOK
    <2>4. i \in 0..Len(log)
      BY <1>1, <1>2
    <2>5. last' \in [Workspace -> 0..Len(log)]
      BY <2>4, <1>3 DEF IInv, TypeOK
    <2>2. /\ {acked', disk', cursors', top'} \subseteq [Workspace -> 0..Len(log')]
          /\ {fetched', cache'} \subseteq SUBSET Rows /\ Cardinality(cache') <= CacheSize
          /\ log' \in Seq([ws : Workspace, kind : {"chat", "own", "upload"}, about : 0..MaxRows])
      BY <1>0 DEF IInv, TypeOK
    <2>3. {recorded', missed', once', twice', blamed', raw'} \subseteq SUBSET Rows
      BY <1>0 DEF IInv, TypeOK
    <2> QED
      BY <1>0, <2>1, <2>2, <2>3, <2>5 DEF IInv, TypeOK
  <1>6. RowsOf(w)' = RowsOf(w) /\ \A j \in RowsOf(w) : Covered(j) => Covered(j)'
    BY <1>0 DEF RowsOf, Covered, Own
  <1>7. Polls(w)'
    <2>1. ASSUME batch[w] # {i} PROVE top[w] \in batch[w] \ {i}
      <3>1. PICK j \in batch[w] : j # i
        BY <1>2, <2>1
      <3>2. i < j /\ j <= top[w]
        BY <1>1, <1>2, <3>1 DEF Polls
      <3> QED
        BY <1>1, <1>2, <3>2
    <2>2. batch[w] = {i} => top[w] = i
      BY <1>2
    <2>3. \A j \in batch[w] \ {i} : i < j /\ cursors[w] < j /\ j <= top[w]
      BY <1>1, <1>2 DEF Polls
    <2> QED
      BY <1>0, <1>1, <1>2, <1>4, <1>6, <2>1, <2>2, <2>3 DEF Polls
  <1>8. Ledger(w)'
    <2> SUFFICES ASSUME NEW j \in RowsOf(w)
                 PROVE  /\ j <= cursors[w] \/ j <= disk[w] \/ j <= acked[w] => Covered(j)'
                        /\ j <= top[w] => Covered(j)' \/ j \in batch[w] \ {i}
                        /\ j \in once' => j <= cursors[w] \/ j <= i
      BY <1>0, <1>4, <1>6 DEF Ledger
    <2>1. Covered(i)'
      BY <1>0 DEF Covered, Own
    <2>2. j \in 1..Len(log) /\ last[w] < i
      BY <1>1, <1>2
    <2> QED
      BY <1>1, <1>2, <1>6, <2>1, <2>2 DEF Ledger
  <1>9. Behind(w)'
    BY <1>0, <1>1, <1>6 DEF Behind
  <1>10. \A u \in Workspace : (Polls(u) /\ Ledger(u) /\ Behind(u))'
    <2> SUFFICES ASSUME NEW u \in Workspace \ {w} PROVE (Polls(u) /\ Ledger(u) /\ Behind(u))'
      BY <1>7, <1>8, <1>9
    <2>1. \A j \in RowsOf(u) : j \in once' => j \in once
      BY <1>2 DEF RowsOf
    <2> QED
      BY <1>0, <1>4, <2>1, Elsewhere
  <1>11. Resolved'
    <2> SUFFICES ASSUME NEW f \in Rows \ blamed', f \notin cache
                 PROVE  /\ fetch[f] = "running" /\ f \in 1..Len(log)
                        /\ pc'[log[f].ws] = "fetching" /\ NextRow(log[f].ws, f)'
      BY <1>0 DEF Resolved
    <2>1. /\ fetch[f] = "running" /\ f \in 1..Len(log)
          /\ pc[log[f].ws] = "fetching" /\ NextRow(log[f].ws, f)
      BY DEF IInv, Resolved
    <2>2. log[f].ws \in Workspace
      BY <2>1, LogTypes, RowFields DEF IInv
    <2>3. log[f].ws # w
      <3> SUFFICES ASSUME log[f].ws = w PROVE FALSE
        OBVIOUS
      <3>1. f = i
        BY <1>1, <1>2, <2>1 DEF NextRow
      <3> QED
        BY <2>1, <3>1
    <2> QED
      BY <1>0, <1>4, <2>1, <2>2, <2>3 DEF NextRow
  <1>12. About' /\ OncePerRewind' /\ RawHasCause' /\ once' \subseteq 1..Len(log')
    BY <1>0, <1>2 DEF IInv, About, RowsOf, OncePerRewind, RawHasCause
  <1> QED
    BY <1>5, <1>10, <1>11, <1>12 DEF IInv

(* A row is passed over, or recorded.                                      *)
LEMMA PollStep2 ==
  ASSUME IInv, NEW w \in Workspace,
         SkipsOwn(w) \/ RecordsMessage(w) \/ RecordsUpload(w) \/ GivesUpUpload(w)
  PROVE  IInv'
  <1>0. /\ recorded \subseteq Rows /\ blamed \subseteq Rows /\ Polls(w) /\ Ledger(w)
        /\ 1..Len(log) \subseteq Rows
    BY Finds DEF IInv, TypeOK
  <1>1. ASSUME NEW i \in Rows, NextRow(w, i), pc[w] \in {"reading", "fetching"}
        PROVE  i \in 1..Len(log) /\ i \in RowsOf(w) /\ log[i].ws = w /\ i \notin once
    <2>1. i \in batch[w] /\ i \in RowsOf(w) /\ last[w] < i /\ cursors[w] < i
      BY <1>0, <1>1 DEF NextRow, Polls
    <2>2. i \in 1..Len(log) /\ last[w] \in Nat /\ cursors[w] \in Nat
      BY <2>1, Finds
    <2> QED
      BY <1>0, <2>1, <2>2 DEF RowsOf, Ledger
  <1>2. CASE SkipsOwn(w)
    <2>1. PICK i \in Rows : NextRow(w, i) /\ Own(i) /\ Passes(w, i)
      BY <1>2 DEF SkipsOwn
    <2>2. /\ UNCHANGED <<platform, position, uploads, crashes, missed>>
          /\ UNCHANGED <<queue, arrival, waits, recorded, once, twice, raw, blamed>>
          /\ pc[w] = "reading"
      BY <1>2 DEF SkipsOwn, inbox, ghosts
    <2>3. /\ queue' \in Seq(1..Len(log)) /\ Len(queue') <= Capacity /\ arrival' \in BOOLEAN
          /\ waits' \in [Waiter -> {"no", "entering", "blocked"}] /\ Awake'
          /\ twice' = {} /\ raw' = {}
      BY <2>2 DEF IInv, TypeOK, Awake, OncePerRewind, RawHasCause
    <2> QED
      BY <1>0, <2>1, <2>2, <2>3, PassStep
  <1>3. CASE RecordsMessage(w)
    <2>1. PICK i \in Rows : NextRow(w, i) /\ log[i].kind = "chat" /\ Records(i, {}) /\ Passes(w, i)
      BY <1>3 DEF RecordsMessage
    <2>2. UNCHANGED <<platform, position, uploads, crashes, missed>> /\ pc[w] = "reading"
      BY <1>3 DEF RecordsMessage
    <2>3. i \in 1..Len(log) /\ log[i].ws = w /\ i \notin once
      BY <1>1, <2>1, <2>2
    <2>4. ASSUME Subject(i) \in Rows PROVE Subject(i) \in cache \cup blamed
      <3>1. Subject(i) = log[i].about /\ log[i].about # 0
        BY <2>1, <2>4 DEF Subject, Rows
      <3>2. log[log[i].about].ws = w
        BY <2>3, <3>1 DEF IInv, About, RowsOf
      <3> QED
        BY <2>2, <2>4, <3>1, <3>2 DEF IInv, Resolved
    <2>5. /\ queue' \in Seq(1..Len(log)) /\ Len(queue') <= Capacity /\ arrival' \in BOOLEAN
          /\ waits' \in [Waiter -> {"no", "entering", "blocked"}]
          /\ recorded' = recorded \cup {i} /\ once' = once \cup {i}
          /\ twice' = {} /\ raw' = {} /\ blamed' = blamed
          /\ Awake'
      <3>1. {} \subseteq Rows /\ blamed \cup {} = blamed
        OBVIOUS
      <3>2. Subject(i) \in Rows => Subject(i) \in cache \cup blamed \cup {}
        BY <2>4
      <3> HIDE <2>4
      <3> QED
        BY <2>1, <2>3, <3>1, <3>2, RecordsKeep
    <2> QED
      BY <1>0, <2>1, <2>2, <2>5, PassStep
  <1>4. CASE RecordsUpload(w)
    <2>1. PICK i \in Rows : NextRow(w, i) /\ fetch[i] = "none" /\ Records(i, {}) /\ Passes(w, i)
      BY <1>4 DEF RecordsUpload
    <2>2. UNCHANGED <<platform, position, uploads, crashes, missed>> /\ pc[w] = "fetching"
      BY <1>4 DEF RecordsUpload
    <2>3. i \in 1..Len(log) /\ log[i].ws = w /\ i \notin once
      BY <1>1, <2>1, <2>2
    <2>4. Subject(i) = i /\ i \in cache \cup blamed
      BY <1>0, <2>1, <2>2 DEF Subject, Polls, IInv, Resolved
    <2>5. /\ queue' \in Seq(1..Len(log)) /\ Len(queue') <= Capacity /\ arrival' \in BOOLEAN
          /\ waits' \in [Waiter -> {"no", "entering", "blocked"}]
          /\ recorded' = recorded \cup {i} /\ once' = once \cup {i}
          /\ twice' = {} /\ raw' = {} /\ blamed' = blamed
          /\ Awake'
      <3>1. {} \subseteq Rows /\ blamed \cup {} = blamed
        OBVIOUS
      <3>2. Subject(i) \in Rows => Subject(i) \in cache \cup blamed \cup {}
        BY <2>4
      <3> HIDE <2>4
      <3> QED
        BY <2>1, <2>3, <3>1, <3>2, RecordsKeep
    <2> QED
      BY <1>0, <2>1, <2>2, <2>4, <2>5, PassStep
  <1>5. CASE GivesUpUpload(w)
    <2>1. PICK i \in Rows : NextRow(w, i) /\ Records(i, {i}) /\ Passes(w, i)
      BY <1>5 DEF GivesUpUpload
    <2>2. UNCHANGED <<platform, position, uploads, crashes, missed>> /\ pc[w] = "fetching"
      BY <1>5 DEF GivesUpUpload
    <2>3. i \in 1..Len(log) /\ log[i].ws = w /\ i \notin once
      BY <1>1, <2>1, <2>2
    <2>4. Subject(i) = i /\ {i} \subseteq Rows
      BY <1>0, <2>1, <2>2 DEF Subject, Polls
    <2>5. /\ queue' \in Seq(1..Len(log)) /\ Len(queue') <= Capacity /\ arrival' \in BOOLEAN
          /\ waits' \in [Waiter -> {"no", "entering", "blocked"}]
          /\ recorded' = recorded \cup {i} /\ once' = once \cup {i}
          /\ twice' = {} /\ raw' = {} /\ blamed' = blamed \cup {i}
          /\ Awake'
      BY <2>1, <2>3, <2>4, RecordsKeep
    <2> QED
      BY <1>0, <2>1, <2>2, <2>5, PassStep
  <1> QED
    BY <1>2, <1>3, <1>4, <1>5

(* An upload is submitted.                                                 *)
LEMMA SubmitsStep ==
  ASSUME IInv, NEW w \in Workspace, SubmitsUpload(w)
  PROVE  IInv'
  <1>1. PICK i \in Rows : /\ NextRow(w, i) /\ log[i].kind = "upload"
                          /\ fetch' = [fetch EXCEPT ![i] = "running"]
                          /\ blamed' = blamed \ {i}
    BY DEF SubmitsUpload
  <1>2. /\ pc[w] = "reading" /\ pc' = [pc EXCEPT ![w] = "fetching"]
        /\ UNCHANGED <<log, aged, pruned, acked, fetched, cursors, disk, queue, arrival, waits, batch,
                       last, top, cache, crashes, recorded, missed, once, twice, raw>>
    BY DEF SubmitsUpload, platform, position, inbox
  <1>3. /\ Len(log) \in Nat /\ batch[w] \subseteq 1..Len(log) /\ RowsOf(w) \subseteq 1..Len(log)
        /\ Polls(w) /\ Ledger(w) /\ Behind(w)
    BY Finds
  <1>4. TypeOK'
    <2>1. /\ fetch' \in [Rows -> {"none", "running", "staged"}]
          /\ pc' \in [Workspace -> {"idle", "reading", "fetching", "saving", "acking"}]
      BY <1>1, <1>2 DEF IInv, TypeOK
    <2>2. /\ {acked', disk', cursors', last', top'} \subseteq [Workspace -> 0..Len(log')]
          /\ {recorded', missed', once', twice', blamed', raw'} \subseteq SUBSET Rows
      BY <1>1, <1>2 DEF IInv, TypeOK
    <2> QED
      BY <1>2, <2>1, <2>2 DEF IInv, TypeOK
  <1>5. pc'[w] = "fetching" /\ \A u \in Workspace \ {w} : pc'[u] = pc[u]
    BY <1>2 DEF IInv, TypeOK
  <1>6. \A j \in Rows : NextRow(w, j) => j = i
    <2>1. i \in Nat /\ i \in batch[w] /\ \A j \in batch[w] : i <= j
      BY <1>1, <1>3 DEF NextRow
    <2> QED
      BY <1>3, <2>1 DEF NextRow
  <1>7. RowsOf(w)' = RowsOf(w) /\ \A j \in Rows : NextRow(w, j)' <=> NextRow(w, j)
    BY <1>2 DEF RowsOf, NextRow
  <1>8. (Polls(w) /\ Ledger(w) /\ Behind(w))'
    BY <1>1, <1>2, <1>3, <1>5, <1>6, <1>7 DEF Polls, Ledger, Behind, Covered, Own
  <1>9. \A u \in Workspace : (Polls(u) /\ Ledger(u) /\ Behind(u))'
    BY <1>2, <1>5, <1>8, Elsewhere
  <1>10. Resolved'
    <2> SUFFICES ASSUME NEW f \in Rows \ blamed', f \notin cache
                 PROVE  /\ fetch'[f] = "running" /\ f \in 1..Len(log)
                        /\ pc'[log[f].ws] = "fetching" /\ NextRow(log[f].ws, f)'
      BY <1>2 DEF Resolved
    <2>1. CASE f = i
      <3>1. i \in 1..Len(log) /\ log[i].ws = w
        BY <1>1, <1>3 DEF NextRow, Polls, RowsOf
      <3>2. fetch'[i] = "running"
        BY <1>1 DEF IInv, TypeOK
      <3>3. NextRow(w, i)'
        BY <1>1, <1>7
      <3>4. pc'[log[i].ws] = "fetching" /\ NextRow(log[i].ws, i)'
        BY <1>2, <1>5, <3>1, <3>3 DEF NextRow
      <3> QED
        BY <2>1, <3>1, <3>2, <3>4
    <2>2. CASE f # i
      <3>1. /\ fetch[f] = "running" /\ f \in 1..Len(log)
            /\ pc[log[f].ws] = "fetching" /\ NextRow(log[f].ws, f)
        BY <1>1, <2>2 DEF IInv, Resolved
      <3>2. log[f].ws \in Workspace /\ log[f].ws # w
        BY <1>2, <3>1, LogTypes, RowFields DEF IInv
      <3>3. fetch'[f] = "running"
        BY <1>1, <2>2, <3>1 DEF IInv, TypeOK
      <3> QED
        BY <1>2, <1>5, <3>1, <3>2, <3>3 DEF NextRow
    <2> QED
      BY <2>1, <2>2
  <1>11. About' /\ Awake' /\ OncePerRewind' /\ RawHasCause' /\ once' \subseteq 1..Len(log')
    BY <1>2 DEF IInv, About, RowsOf, Awake, OncePerRewind, RawHasCause
  <1> QED
    BY <1>4, <1>9, <1>10, <1>11 DEF IInv

(* The cursor is saved, or not, and the rows are acknowledged.             *)
LEMMA EndsStep ==
  ASSUME IInv, NEW w \in Workspace, SavesCursor(w) \/ CannotSave(w) \/ Acks(w)
  PROVE  IInv'
  <1>1. /\ UNCHANGED <<log, aged, pruned, fetched, queue, arrival, waits, batch,
                       fetch, cache, crashes, recorded, missed, once, twice, blamed, raw>>
        /\ pc[w] \in {"saving", "acking"}
    BY DEF SavesCursor, CannotSave, Acks, platform, position, inbox, uploads, ghosts
  <1>2. /\ Len(log) \in Nat /\ Polls(w) /\ Ledger(w) /\ Behind(w)
        /\ acked[w] \in 0..Len(log) /\ disk[w] \in 0..Len(log) /\ cursors[w] \in 0..Len(log)
        /\ last[w] \in 0..Len(log) /\ top[w] \in 0..Len(log) /\ 0 \in 0..Len(log)
        /\ RowsOf(w) \subseteq 1..Len(log)
    BY Finds
  <1>3. PICK p \in {"acking", "idle"}, l \in {last[w], 0}, t \in {top[w], 0}, c \in {cursors[w], last[w]},
             d \in {disk[w], last[w]}, a \in {acked[w], Later(acked[w], top[w])} :
          /\ pc' = [pc EXCEPT ![w] = p] /\ last' = [last EXCEPT ![w] = l] /\ top' = [top EXCEPT ![w] = t]
          /\ cursors' = [cursors EXCEPT ![w] = c] /\ disk' = [disk EXCEPT ![w] = d]
          /\ acked' = [acked EXCEPT ![w] = a]
          /\ c = last[w]
          /\ p = "acking" => d = last[w] /\ l = last[w] /\ t = top[w] /\ a = acked[w]
          /\ p = "idle" => l = 0 /\ t = 0 /\ ((d = disk[w] /\ a = acked[w]) \/ d = last[w])
    <2>0. \A f \in {pc, last, top, cursors, disk, acked} : f = [f EXCEPT ![w] = f[w]]
      BY DEF IInv, TypeOK
    <2>1. CASE SavesCursor(w)
      BY <2>0, <2>1 DEF SavesCursor, platform
    <2>2. CASE CannotSave(w)
      BY <2>0, <2>2 DEF CannotSave, PollEnds, platform
    <2>3. CASE Acks(w)
      <3>1. cursors[w] = last[w] /\ disk[w] = last[w]
        BY <1>2, <2>3 DEF Acks, Polls
      <3> QED
        BY <2>0, <2>3, <3>1 DEF Acks, PollEnds, position
    <2> QED
      BY <2>1, <2>2, <2>3
  <1>4. /\ batch[w] = {} /\ last[w] = top[w] /\ top[w] \in RowsOf(w)
        /\ acked[w] <= top[w] /\ cursors[w] <= top[w]
    BY <1>1, <1>2 DEF Polls
  <1>5. a \in {acked[w], top[w]} /\ a <= top[w]
    BY <1>2, <1>4 DEF Later
  <1>6. TypeOK'
    <2>1. pc' \in [Workspace -> {"idle", "reading", "fetching", "saving", "acking"}]
      BY <1>3 DEF IInv, TypeOK
    <2>2. {acked', disk', cursors', last', top'} \subseteq [Workspace -> 0..Len(log')]
      BY <1>1, <1>2, <1>3, <1>5 DEF IInv, TypeOK
    <2>3. {recorded', missed', once', twice', blamed', raw'} \subseteq SUBSET Rows
      BY <1>1 DEF IInv, TypeOK
    <2> QED
      BY <1>1, <2>1, <2>2, <2>3 DEF IInv, TypeOK
  <1>7. /\ pc'[w] = p /\ last'[w] = l /\ top'[w] = t /\ cursors'[w] = last[w] /\ disk'[w] = d /\ acked'[w] = a
        /\ \A u \in Workspace \ {w} : /\ pc'[u] = pc[u] /\ last'[u] = last[u] /\ top'[u] = top[u]
                                       /\ cursors'[u] = cursors[u] /\ disk'[u] = disk[u]
                                       /\ acked'[u] = acked[u]
    BY <1>3 DEF IInv, TypeOK
  <1>8. RowsOf(w)' = RowsOf(w) /\ \A j \in RowsOf(w) : Covered(j)' <=> Covered(j)
    BY <1>1 DEF RowsOf, Covered, Own
  <1>9. \A j \in RowsOf(w) : j <= top[w] => Covered(j)
    BY <1>2, <1>4 DEF Ledger
  <1>10. Polls(w)'
    <2>1. CASE p = "idle"
      BY <1>1, <1>3, <1>4, <1>7, <1>8, <2>1 DEF Polls
    <2>2. CASE p = "acking"
      <3>1. /\ pc'[w] = "acking" /\ batch'[w] = {} /\ last'[w] = top[w] /\ top'[w] = top[w]
            /\ disk'[w] = top[w] /\ cursors'[w] = top[w] /\ acked'[w] <= top[w]
        BY <1>1, <1>3, <1>4, <1>7, <2>2
      <3>2. top[w] \in Nat
        BY <1>2
      <3> QED
        BY <1>4, <1>8, <3>1, <3>2 DEF Polls
    <2> QED
      BY <2>1, <2>2
  <1>11. Ledger(w)'
    <2> SUFFICES ASSUME NEW j \in RowsOf(w)
                 PROVE  /\ j <= last[w] \/ j <= d \/ j <= a => Covered(j)
                        /\ j <= t => Covered(j)
                        /\ j \in once => j <= last[w]
      BY <1>1, <1>7, <1>8 DEF Ledger
    <2>1. j \in Nat /\ j > 0
      BY <1>2
    <2> QED
      BY <1>2, <1>3, <1>4, <1>5, <1>9, <2>1 DEF Ledger
  <1>12. Behind(w)'
    BY <1>2, <1>3, <1>4, <1>5, <1>7, <1>8 DEF Behind
  <1>13. \A u \in Workspace : (Polls(u) /\ Ledger(u) /\ Behind(u))'
    BY <1>1, <1>7, <1>10, <1>11, <1>12, Elsewhere
  <1>14. Resolved'
    <2> SUFFICES ASSUME NEW f \in Rows \ blamed, f \notin cache
                 PROVE  /\ fetch[f] = "running" /\ f \in 1..Len(log)
                        /\ pc'[log[f].ws] = "fetching" /\ NextRow(log[f].ws, f)'
      BY <1>1 DEF Resolved
    <2>1. /\ fetch[f] = "running" /\ f \in 1..Len(log)
          /\ pc[log[f].ws] = "fetching" /\ NextRow(log[f].ws, f)
      BY DEF IInv, Resolved
    <2>2. log[f].ws \in Workspace /\ log[f].ws # w
      BY <1>1, <2>1, LogTypes, RowFields DEF IInv
    <2> QED
      BY <1>1, <1>7, <2>1, <2>2 DEF NextRow
  <1>15. About' /\ Awake' /\ OncePerRewind' /\ RawHasCause' /\ once' \subseteq 1..Len(log')
    BY <1>1 DEF IInv, About, RowsOf, Awake, OncePerRewind, RawHasCause
  <1> QED
    BY <1>6, <1>13, <1>14, <1>15 DEF IInv

(* The cache stays within its size, whichever entry makes room.            *)
LEMMA CacheFits ==
  ASSUME IInv, NEW f \in Rows, FetchStages(f)
  PROVE  cache' \subseteq Rows /\ Cardinality(cache') <= CacheSize
  <1>1. cache \subseteq Rows /\ Cardinality(cache) <= CacheSize /\ CacheSize \in Nat
    BY Bounds DEF IInv, TypeOK
  <1>2. IsFiniteSet(cache)
    <2>1. cache \in SUBSET Nat /\ \A i \in cache : i <= MaxRows
      BY <1>1, Bounds DEF Rows
    <2> QED
      BY <2>1, Bounds, FS_BoundedSetOfNaturals
  <1>3. Cardinality(cache) \in Nat
    BY <1>2, FS_CardinalityType
  <1>4. CASE f \in cache
    BY <1>1, <1>4 DEF FetchStages
  <1>5. CASE f \notin cache /\ Cardinality(cache) < CacheSize
    <2>1. cache' = cache \cup {f}
      BY <1>5 DEF FetchStages
    <2>2. Cardinality(cache \cup {f}) = Cardinality(cache) + 1
      BY <1>2, <1>5, FS_AddElement
    <2> QED
      BY <1>1, <1>3, <1>5, <2>1, <2>2
  <1>6. CASE f \notin cache /\ ~ (Cardinality(cache) < CacheSize)
    <2>1. PICK g \in cache : cache' = (cache \ {g}) \cup {f}
      BY <1>6 DEF FetchStages
    <2>2. IsFiniteSet(cache \ {g}) /\ Cardinality(cache \ {g}) = Cardinality(cache) - 1
      BY <1>2, FS_RemoveElement
    <2>3. Cardinality((cache \ {g}) \cup {f}) = Cardinality(cache \ {g}) + 1
      BY <1>6, <2>2, FS_AddElement
    <2> QED
      BY <1>1, <1>3, <2>1, <2>2, <2>3
  <1> QED
    BY <1>4, <1>5, <1>6

(* The worker of an upload.                                                *)
LEMMA FetchKeeps ==
  ASSUME IInv, NEW f \in Rows, FetchStep(f)
  PROVE  IInv'
  <1>1. /\ UNCHANGED <<log, aged, pruned, acked, cursors, disk, queue, arrival, waits, pc, batch, last, top,
                       crashes, recorded, missed, once, twice, raw>>
        /\ blamed \subseteq blamed' /\ \A g \in Rows \ {f} : fetch'[g] = fetch[g]
    BY DEF FetchStep, FetchFails, FetchStages, FetchEnds, platform, position, inbox, poller, ghosts,
           IInv, TypeOK
  <1>2. /\ fetch' \in [Rows -> {"none", "running", "staged"}]
        /\ fetched' \subseteq Rows /\ blamed' \subseteq Rows
    <2>1. /\ fetch \in [Rows -> {"none", "running", "staged"}]
          /\ fetched \subseteq Rows /\ blamed \subseteq Rows /\ cache \subseteq Rows
      BY DEF IInv, TypeOK
    <2>2. CASE FetchFails(f)
      BY <2>1, <2>2 DEF FetchFails, platform
    <2>3. CASE FetchStages(f)
      <3>1. fetch' = [fetch EXCEPT ![f] = "staged"] /\ fetched' = fetched
        BY <2>3 DEF FetchStages, platform
      <3>2. blamed' = blamed \/ \E g \in cache : blamed' = blamed \cup {g}
        BY <2>3 DEF FetchStages
      <3> QED
        BY <2>1, <3>1, <3>2
    <2>4. CASE FetchEnds(f)
      BY <2>1, <2>4 DEF FetchEnds, ghosts
    <2> QED
      BY <2>2, <2>3, <2>4 DEF FetchStep
  <1>3. cache' \subseteq Rows /\ Cardinality(cache') <= CacheSize
    <2>1. CASE FetchStages(f)
      BY <2>1, CacheFits
    <2>2. CASE ~ FetchStages(f)
      BY <2>2 DEF FetchStep, FetchFails, FetchEnds, IInv, TypeOK
    <2> QED
      BY <2>1, <2>2
  <1>4. TypeOK'
    <2>1. /\ {acked', disk', cursors', last', top'} \subseteq [Workspace -> 0..Len(log')]
          /\ {recorded', missed', once', twice', blamed', raw'} \subseteq SUBSET Rows
      BY <1>1, <1>2 DEF IInv, TypeOK
    <2> QED
      BY <1>1, <1>2, <1>3, <2>1 DEF IInv, TypeOK
  <1>5. \A u \in Workspace : RowsOf(u)' = RowsOf(u) /\ \A i \in Rows : NextRow(u, i)' <=> NextRow(u, i)
    BY <1>1 DEF RowsOf, NextRow
  <1>6. \A u \in Workspace : (Polls(u) /\ Ledger(u) /\ Behind(u))'
    BY <1>1, <1>5 DEF IInv, Polls, Ledger, Behind, Covered, Own
  <1>7. Resolved'
    <2> SUFFICES ASSUME NEW g \in Rows \ blamed', g \notin cache'
                 PROVE  /\ fetch'[g] = "running" /\ g \in 1..Len(log)
                        /\ pc[log[g].ws] = "fetching" /\ NextRow(log[g].ws, g)'
      BY <1>1 DEF Resolved
    <2>1. g \notin cache /\ g # f
      <3>1. CASE FetchFails(f)
        BY <3>1 DEF FetchFails
      <3>2. CASE FetchStages(f)
        BY <3>2 DEF FetchStages
      <3>3. CASE FetchEnds(f)
        <4>1. g \notin cache /\ g \notin blamed /\ fetch[f] = "staged"
          BY <3>3 DEF FetchEnds, ghosts
        <4> QED
          BY <4>1 DEF IInv, Resolved
      <3> QED
        BY <3>1, <3>2, <3>3 DEF FetchStep
    <2>2. /\ fetch[g] = "running" /\ g \in 1..Len(log)
          /\ pc[log[g].ws] = "fetching" /\ NextRow(log[g].ws, g)
      BY <1>1, <2>1 DEF IInv, Resolved
    <2> QED
      BY <1>1, <2>1, <2>2 DEF NextRow
  <1>8. About' /\ Awake' /\ OncePerRewind' /\ RawHasCause' /\ once' \subseteq 1..Len(log')
    BY <1>1 DEF IInv, About, RowsOf, Awake, OncePerRewind, RawHasCause
  <1> QED
    BY <1>4, <1>6, <1>7, <1>8 DEF IInv

(* The tools of the agent.                                                 *)
LEMMA ToolsKeep ==
  ASSUME IInv, (\E k \in 1..Capacity : Pops(k)) \/ (\E c \in Waiter : WaitStep(c))
  PROVE  IInv'
  <1>1. UNCHANGED <<log, aged, pruned, acked, fetched, cursors, disk, pc, batch, last, top, fetch, cache,
                    crashes, recorded, missed, once, twice, blamed, raw>>
    BY DEF Pops, WaitStep, WaitEnters, WaitBlocks, WaitEnds, platform, position, poller, uploads, ghosts
  <1>2. /\ queue' \in Seq(1..Len(log)) /\ Len(queue') <= Capacity /\ arrival' \in BOOLEAN
        /\ waits' \in [Waiter -> {"no", "entering", "blocked"}] /\ Awake'
    <2>1. /\ queue \in Seq(1..Len(log)) /\ Len(queue) \in Nat /\ Len(queue) <= Capacity
          /\ arrival \in BOOLEAN /\ waits \in [Waiter -> {"no", "entering", "blocked"}]
          /\ \A k \in 1..Len(queue) : queue[k] \in 1..Len(log)
      BY LogTypes DEF IInv, TypeOK
    <2>2. ASSUME NEW k \in 1..Len(queue), Pops(k)
          PROVE  /\ queue' \in Seq(1..Len(log)) /\ Len(queue') <= Capacity /\ arrival' \in BOOLEAN
                 /\ waits' = waits /\ Awake'
      <3> DEFINE front == SubSeq(queue, 1, k - 1)
                 back == SubSeq(queue, k + 1, Len(queue))
      <3>1. front \in Seq(1..Len(log)) /\ Len(front) = k - 1
        BY <2>1, SubSeqProperties
      <3>2. back \in Seq(1..Len(log)) /\ Len(back) = Len(queue) - k
        BY <2>1, SubSeqProperties
      <3> HIDE DEF front, back
      <3>3. front \o back \in Seq(1..Len(log)) /\ Len(front \o back) = Len(queue) - 1
        <4>1. front \o back \in Seq(1..Len(log)) /\ Len(front \o back) = Len(front) + Len(back)
          BY <3>1, <3>2, ConcatProperties
        <4>2. (k - 1) + (Len(queue) - k) = Len(queue) - 1
          BY <2>1
        <4> QED
          BY <3>1, <3>2, <4>1, <4>2
      <3>4. queue' = front \o back /\ arrival' = StillArrived /\ waits' = waits
        BY <2>2 DEF Pops, front, back
      <3>5. queue' # <<>> => Len(queue) > 1
        BY <2>1, <3>3, <3>4, EmptySeq
      <3>6. Awake'
        <4>1. queue # <<>>
          BY <2>1
        <4> QED
          BY <3>4, <3>5, <4>1 DEF IInv, Awake, StillArrived
      <3>7. StillArrived \in BOOLEAN
        BY <2>1 DEF StillArrived
      <3> QED
        BY <2>1, <3>3, <3>4, <3>6, <3>7, Bounds
    <2>3. ASSUME NEW c \in Waiter, WaitStep(c)
          PROVE  /\ queue' = queue /\ arrival' \in BOOLEAN
                 /\ waits' \in [Waiter -> {"no", "entering", "blocked"}] /\ Awake'
      <3>1. CASE WaitEnters(c)
        BY <2>1, <3>1 DEF WaitEnters, Awake
      <3>2. CASE WaitBlocks(c)
        BY <2>1, <3>2 DEF WaitBlocks, IInv, Awake
      <3>3. CASE WaitEnds(c)
        BY <2>1, <3>3 DEF WaitEnds, IInv, Awake
      <3> QED
        BY <2>3, <3>1, <3>2, <3>3 DEF WaitStep
    <2>4. \A k : Pops(k) => k \in 1..Len(queue)
      BY DEF Pops
    <2> QED
      BY <2>1, <2>2, <2>3, <2>4
  <1>3. TypeOK'
    <2>1. /\ {acked', disk', cursors', last', top'} \subseteq [Workspace -> 0..Len(log')]
          /\ {recorded', missed', once', twice', blamed', raw'} \subseteq SUBSET Rows
      BY <1>1 DEF IInv, TypeOK
    <2> QED
      BY <1>1, <1>2, <2>1 DEF IInv, TypeOK
  <1>4. \A u \in Workspace : RowsOf(u)' = RowsOf(u) /\ \A i \in Rows : NextRow(u, i)' <=> NextRow(u, i)
    BY <1>1 DEF RowsOf, NextRow
  <1>5. \A u \in Workspace : (Polls(u) /\ Ledger(u) /\ Behind(u))'
    BY <1>1, <1>4 DEF IInv, Polls, Ledger, Behind, Covered, Own
  <1>6. About' /\ Resolved' /\ OncePerRewind' /\ RawHasCause' /\ once' \subseteq 1..Len(log')
    BY <1>1 DEF IInv, About, RowsOf, Resolved, NextRow, OncePerRewind, RawHasCause
  <1> QED
    BY <1>2, <1>3, <1>5, <1>6 DEF IInv

(* The process is started again.                                           *)
LEMMA RestartsKeep == IInv /\ Restarts => IInv'
  <1> SUFFICES ASSUME IInv, Restarts PROVE IInv'
    OBVIOUS
  <1>1. /\ UNCHANGED <<log, aged, pruned, acked, fetched, disk, recorded, missed, twice, raw>>
        /\ cursors' = disk /\ queue' = <<>> /\ arrival' = FALSE /\ cache' = {} /\ blamed' = Rows
        /\ crashes' = crashes + 1 /\ crashes < MaxCrashes
        /\ once' = {i \in once : i <= disk[log[i].ws]}
        /\ pc' = [w \in Workspace |-> "idle"] /\ batch' = [w \in Workspace |-> {}]
        /\ last' = [w \in Workspace |-> 0] /\ top' = [w \in Workspace |-> 0]
        /\ fetch' = [f \in Rows |-> "none"] /\ waits' = [c \in Waiter |-> "no"]
    BY DEF Restarts, platform
  <1>2. TypeOK'
    <2>1. 0 \in 0..Len(log) /\ crashes' \in 0..MaxCrashes /\ Len(queue') <= Capacity
          /\ Cardinality(cache') <= CacheSize
      <3>1. Cardinality({}) = 0
        BY FS_EmptySet
      <3>2. crashes \in 0..MaxCrashes /\ Len(<<>>) = 0
        BY DEF IInv, TypeOK
      <3> QED
        BY <1>1, <3>1, <3>2, Bounds, LogTypes DEF IInv
    <2>2. last' \in [Workspace -> 0..Len(log')] /\ top' \in [Workspace -> 0..Len(log')]
      BY <1>1, <2>1
    <2>3. {acked', disk', cursors'} \subseteq [Workspace -> 0..Len(log')]
      BY <1>1 DEF IInv, TypeOK
    <2>4. {recorded', missed', once', twice', blamed', raw'} \subseteq SUBSET Rows
      BY <1>1 DEF IInv, TypeOK
    <2>5. /\ fetch' \in [Rows -> {"none", "running", "staged"}]
          /\ waits' \in [Waiter -> {"no", "entering", "blocked"}]
          /\ pc' \in [Workspace -> {"idle", "reading", "fetching", "saving", "acking"}]
          /\ batch' \in [Workspace -> SUBSET (1..Len(log'))]
      BY <1>1
    <2>6. queue' \in Seq(1..Len(log')) /\ arrival' \in BOOLEAN /\ cache' \subseteq Rows
      BY <1>1, EmptySeq
    <2>7. UNCHANGED <<log, aged, pruned, fetched>>
      BY <1>1
    <2> QED
      BY <2>1, <2>2, <2>3, <2>4, <2>5, <2>6, <2>7 DEF IInv, TypeOK
  <1>3. ASSUME NEW u \in Workspace PROVE (Polls(u) /\ Ledger(u) /\ Behind(u))'
    <2>1. RowsOf(u)' = RowsOf(u) /\ \A i \in RowsOf(u) : (Covered(i)' <=> Covered(i)) /\ log[i].ws = u
      BY <1>1 DEF RowsOf, Covered, Own
    <2>2. /\ RowsOf(u) \subseteq 1..Len(log) /\ Ledger(u) /\ Behind(u) /\ disk[u] \in Nat
          /\ acked[u] \in Nat
      BY Finds
    <2>3. Polls(u)'
      BY <1>1 DEF Polls
    <2>4. Ledger(u)' /\ Behind(u)'
      BY <1>1, <2>1, <2>2 DEF Ledger, Behind
    <2> QED
      BY <2>3, <2>4
  <1>4. About' /\ Resolved' /\ Awake' /\ OncePerRewind' /\ RawHasCause' /\ once' \subseteq 1..Len(log')
    BY <1>1 DEF IInv, About, RowsOf, Resolved, Awake, OncePerRewind, RawHasCause
  <1> QED
    BY <1>2, <1>3, <1>4 DEF IInv

(* The invariant is inductive.                                             *)
LEMMA Inductive == IInv /\ [Next]_vars => IInv'
  <1> SUFFICES ASSUME IInv, [Next]_vars PROVE IInv'
    OBVIOUS
  <1>1. CASE UNCHANGED vars
    <2>1. UNCHANGED <<log, aged, pruned, acked, fetched, cursors, disk, queue, arrival, waits, pc, batch,
                      last, top, fetch, cache, crashes, recorded, missed, once, twice, blamed, raw>>
      BY <1>1 DEF vars, platform, position, inbox, poller, uploads, ghosts
    <2>2. TypeOK'
      BY <2>1 DEF IInv, TypeOK
    <2>3. \A u \in Workspace : RowsOf(u)' = RowsOf(u) /\ \A i \in Rows : NextRow(u, i)' <=> NextRow(u, i)
      BY <2>1 DEF RowsOf, NextRow
    <2>4. \A u \in Workspace : (Polls(u) /\ Ledger(u) /\ Behind(u))'
      BY <2>1, <2>3 DEF IInv, Polls, Ledger, Behind, Covered, Own
    <2>5. About' /\ Resolved' /\ Awake' /\ OncePerRewind' /\ RawHasCause' /\ once' \subseteq 1..Len(log')
      BY <2>1 DEF IInv, About, RowsOf, Resolved, NextRow, Awake, OncePerRewind, RawHasCause
    <2> QED
      BY <2>2, <2>4, <2>5 DEF IInv
  <1>2. ASSUME NEW w \in Workspace, PollStep(w) PROVE IInv'
    BY <1>2, PollStep1, PollStep2, SubmitsStep, EndsStep DEF PollStep
  <1>3. CASE \E w \in Workspace : Arrives(w)
    BY <1>3, ArrivesStep
  <1>4. CASE \E f \in Rows : FetchStep(f)
    BY <1>4, FetchKeeps
  <1> QED
    BY <1>1, <1>2, <1>3, <1>4, PlatformStep, ToolsKeep, RestartsKeep DEF Next

(* The invariant holds of the inbox.                                       *)
THEOREM Safe == Spec => []IInv
  <1> QED
    BY InitIInv, Inductive, PTL DEF Spec

(* The types of the inbox: the queue and the cache never outgrow their     *)
(* capacities, and no cursor or mark is ahead of the log.                  *)
THEOREM InboxTypeCorrect == Spec => []TypeOK
  <1>1. IInv => TypeOK
    BY DEF IInv
  <1> QED
    BY Safe, <1>1, PTL

(* A row the cursor or an acknowledgement has left behind was recorded; no *)
(* acknowledged row is asked for again; no row comes twice without a       *)
(* rewind, and no upload bare without a cause - whatever fails, and        *)
(* however the workspaces interleave (inbox.py:763-929).                   *)
THEOREM EachRowIsKept == Spec => []RowsAreKept
  <1>1. IInv => RowsAreKept
    <2> SUFFICES ASSUME IInv PROVE NothingSkipped /\ AckIsDurable
      BY DEF IInv, RowsAreKept
    <2>1. NothingSkipped
      BY DEF IInv, Ledger, Covered, NothingSkipped
    <2>2. AckIsDurable
      BY DEF IInv, Behind, AckIsDurable
    <2> QED
      BY <2>1, <2>2
  <1> QED
    BY Safe, <1>1, PTL

(* No call of wait_for_message sleeps while a message is queued, however   *)
(* records, pops and other calls interleave (inbox.py:257-358).            *)
THEOREM NobodySleepsThrough == Spec => []NoLostWakeup
  <1>1. IInv => NoLostWakeup
    BY DEF IInv, Awake, NoLostWakeup
  <1> QED
    BY Safe, <1>1, PTL
=============================================================================
