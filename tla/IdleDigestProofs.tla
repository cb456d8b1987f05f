--------------------------- MODULE IdleDigestProofs ---------------------------
(***************************************************************************)
(* Proofs about IdleDigest, for any providers, sections and limits.  The   *)
(* inductive invariant says what the counters of the quarantine have to do *)
(* with each other within a tick, and where the baseline may differ from   *)
(* what the agent was told.                                                *)
(***************************************************************************)
EXTENDS IdleDigest, TLAPS

-----------------------------------------------------------------------------
(* The inductive invariant.                                                *)

(* Who is quarantined has a full row of misses.  Who is not counts his     *)
(* misses, or is on probation until the gather ends.                       *)
RowsCounted ==
  \A p \in Provider :
    /\ p \in disabled => misses[p] = MaxFailures
    /\ p \notin disabled =>
         /\ failures[p] < MaxFailures
         /\ \/ misses[p] = failures[p]
            \/ /\ phase = "gathering"
               /\ misses[p] = MaxFailures
               /\ failures[p] = MaxFailures - 1

(* The baseline is what the agent was told, where nothing has moved.       *)
BaselineIsShown == \A p \in Provider \ moved : baseline[p] = shown[p]

(* In calm nothing has moved and nobody is quarantined.                    *)
CalmIsSettled == calm => moved = {} /\ disabled = {}

(* The breaker latches at its limit.                                       *)
StreakBelow == ~halted => streak < MaxIdentical

(* A late digest is the one that was in flight.                            *)
LateInFlight == late = 0 \/ (late = 1 /\ halted /\ phase # "gathering")

Settled == BaselineIsShown /\ CalmIsSettled /\ NoDoubleFire
Breaker == StreakBelow /\ LateInFlight

IInv == TypeOK /\ RowsCounted /\ Settled /\ Breaker

-----------------------------------------------------------------------------
(* The runner.                                                             *)

RunnerType ==
  /\ failures \in [Provider -> 0..MaxFailures]
  /\ disabled \in SUBSET Provider
  /\ cooldown \in [Provider -> Nat]
  /\ backoff \in [Provider -> 0..(LastStep + 1)]
  /\ misses \in [Provider -> 0..MaxFailures]

(* The start of a gather keeps the counters in order.                      *)
LEMMA AskKeeps ==
  ASSUME DigestAssumption, RunnerType, RowsCounted, phase = "waiting",
         AskProviders, phase' = "gathering", misses' = misses
  PROVE  RunnerType' /\ RowsCounted' /\ disabled' \subseteq disabled
<1> DEFINE probed == {p \in Provider : DueForReprobe(p)}
<1>1. /\ disabled' = disabled \ probed
      /\ cooldown' = [p \in Provider |->
                        IF p \in disabled \ probed THEN cooldown[p] - 1 ELSE 0]
      /\ backoff' = [p \in Provider |->
                       IF p \in probed THEN AtMost(backoff[p] + 1, LastStep + 1)
                                       ELSE backoff[p]]
      /\ failures' = [p \in Provider |->
                        IF p \in probed THEN MaxFailures - 1 ELSE failures[p]]
  BY DEF AskProviders
<1>2. \A p \in Provider : p \in probed <=> p \in disabled /\ cooldown[p] <= 1
  BY DEF DueForReprobe
<1> HIDE DEF probed
<1>3. MaxFailures \in Nat \ {0} /\ LastStep \in Nat
  BY DEF DigestAssumption
<1>4. RunnerType'
  <2>1. failures' \in [Provider -> 0..MaxFailures]
    BY <1>1, <1>3, SMT DEF RunnerType
  <2>2. cooldown' \in [Provider -> Nat]
    <3>1. \A p \in disabled \ probed : cooldown[p] - 1 \in Nat
      BY <1>2, SMT DEF RunnerType
    <3>2. QED BY <1>1, <3>1, SMT DEF RunnerType
  <2>3. backoff' \in [Provider -> 0..(LastStep + 1)]
    <3>1. \A p \in Provider : AtMost(backoff[p] + 1, LastStep + 1) \in 0..(LastStep + 1)
      BY <1>3, SMT DEF RunnerType, AtMost
    <3>2. QED BY <1>1, <3>1, SMT DEF RunnerType
  <2>4. QED BY <1>1, <2>1, <2>2, <2>3 DEF RunnerType
<1>5. RowsCounted'
  <2> SUFFICES ASSUME NEW p \in Provider
               PROVE  /\ p \in disabled' => misses[p] = MaxFailures
                      /\ p \notin disabled' =>
                           /\ failures'[p] < MaxFailures
                           /\ \/ misses[p] = failures'[p]
                              \/ /\ misses[p] = MaxFailures
                                 /\ failures'[p] = MaxFailures - 1
    BY DEF RowsCounted
  <2>1. CASE p \in probed
    BY <2>1, <1>1, <1>2, <1>3, SMT DEF RowsCounted
  <2>2. CASE p \notin probed
    BY <2>2, <1>1, SMT DEF RowsCounted
  <2>3. QED BY <2>1, <2>2
<1>6. QED BY <1>1, <1>4, <1>5

(* The end of a gather: who is not quarantined now has a row of misses     *)
(* below the limit.                                                        *)
LEMMA CountKeeps ==
  ASSUME DigestAssumption, RunnerType, RowsCounted, phase = "gathering",
         CountFailures, phase' # "gathering"
  PROVE  /\ RunnerType' /\ RowsCounted'
         /\ Failing = {} => disabled' = disabled
<1> DEFINE over == {p \in Failing : failures[p] + 1 >= MaxFailures}
<1>1. /\ failures' = [p \in Provider |-> IF p \in Answering THEN 0
                                         ELSE IF p \in Failing THEN failures[p] + 1
                                         ELSE failures[p]]
      /\ disabled' = disabled \cup over
      /\ cooldown' = [p \in Provider |->
                        IF p \in over THEN Backoff[AtMost(backoff[p], LastStep)]
                        ELSE IF p \in Answering THEN 0 ELSE cooldown[p]]
      /\ backoff' = [p \in Provider |-> IF p \in Answering THEN 0 ELSE backoff[p]]
      /\ misses' = [p \in Provider |->
                      IF p \in Answering THEN 0
                      ELSE IF p \in Failing THEN AtMost(misses[p] + 1, MaxFailures)
                      ELSE misses[p]]
  BY DEF CountFailures
<1>2. \A p : p \in over <=> p \in Failing /\ failures[p] + 1 >= MaxFailures
  OBVIOUS
<1> HIDE DEF over
<1>3. MaxFailures \in Nat \ {0} /\ LastStep \in Nat /\ Backoff \in [0..LastStep -> Nat \ {0}]
  BY DEF DigestAssumption
<1>4. \A p \in Provider : /\ p \in disabled => p \notin Answering /\ p \notin Failing
                          /\ p \notin disabled => p \in Answering \/ p \in Failing
                          /\ p \in Answering => p \notin Failing
  BY DEF Answering, Failing, Asked
<1>5. RunnerType'
  <2>1. failures' \in [Provider -> 0..MaxFailures]
    <3>1. \A p \in Provider : p \in Failing => failures[p] + 1 \in 0..MaxFailures
      BY <1>3, <1>4, SMT DEF RunnerType, RowsCounted
    <3>2. QED BY <1>1, <1>3, <3>1, SMT DEF RunnerType
  <2>2. disabled' \in SUBSET Provider
    BY <1>1, <1>2 DEF RunnerType, Failing, Asked
  <2>3. cooldown' \in [Provider -> Nat]
    <3>1. \A p \in Provider : AtMost(backoff[p], LastStep) \in 0..LastStep
      BY <1>3, SMT DEF RunnerType, AtMost
    <3>2. \A p \in Provider : Backoff[AtMost(backoff[p], LastStep)] \in Nat
      BY <1>3, <3>1
    <3>3. QED BY <1>1, <3>2, SMT DEF RunnerType
  <2>4. backoff' \in [Provider -> 0..(LastStep + 1)]
    BY <1>1, <1>3, SMT DEF RunnerType
  <2>5. misses' \in [Provider -> 0..MaxFailures]
    <3>1. \A p \in Provider : AtMost(misses[p] + 1, MaxFailures) \in 0..MaxFailures
      BY <1>3, SMT DEF RunnerType, AtMost
    <3>2. QED BY <1>1, <1>3, <3>1, SMT DEF RunnerType
  <2>6. QED BY <2>1, <2>2, <2>3, <2>4, <2>5 DEF RunnerType
<1>6. RowsCounted'
  <2> SUFFICES ASSUME NEW p \in Provider
               PROVE  /\ p \in disabled' => misses'[p] = MaxFailures
                      /\ p \notin disabled' => /\ failures'[p] < MaxFailures
                                               /\ misses'[p] = failures'[p]
    BY DEF RowsCounted
  <2>1. CASE p \in disabled
    BY <2>1, <1>1, <1>4 DEF RowsCounted
  <2>2. CASE p \in Answering
    BY <2>2, <1>1, <1>2, <1>3, <1>4, SMT
  <2>3. CASE p \in Failing
    <3>1. /\ p \notin disabled /\ p \notin Answering
          /\ failures'[p] = failures[p] + 1
          /\ misses'[p] = AtMost(misses[p] + 1, MaxFailures)
          /\ p \in disabled' <=> failures[p] + 1 >= MaxFailures
      BY <2>3, <1>1, <1>2, <1>4
    <3>2. failures[p] \in 0..MaxFailures /\ misses[p] \in 0..MaxFailures
      BY DEF RunnerType
    <3>3. failures[p] < MaxFailures
      BY <3>1 DEF RowsCounted
    <3>4. \/ misses[p] = failures[p]
          \/ misses[p] = MaxFailures /\ failures[p] = MaxFailures - 1
      BY <3>1 DEF RowsCounted
    <3>5. CASE failures[p] + 1 >= MaxFailures
      <4>1. AtMost(misses[p] + 1, MaxFailures) = MaxFailures
        BY <3>2, <3>3, <3>4, <3>5, <1>3, SMT DEF AtMost
      <4>2. QED BY <4>1, <3>1, <3>5
    <3>6. CASE ~(failures[p] + 1 >= MaxFailures)
      <4>1. AtMost(misses[p] + 1, MaxFailures) = failures[p] + 1
        BY <3>2, <3>3, <3>4, <3>6, <1>3, SMT DEF AtMost
      <4>2. failures[p] + 1 < MaxFailures
        BY <3>2, <3>6, <1>3, SMT
      <4>3. QED BY <4>1, <4>2, <3>1, <3>6
    <3>7. QED BY <3>5, <3>6
  <2>4. QED BY <2>1, <2>2, <2>3, <1>4
<1>7. Failing = {} => disabled' = disabled
  BY <1>1, <1>2
<1>8. QED BY <1>5, <1>6, <1>7

-----------------------------------------------------------------------------
(* The types of the rest.                                                  *)

WorldType ==
  /\ says \in Sections /\ \A p \in Provider : says[p] \in Says(p) \cup {Silent}
  /\ down \in SUBSET Provider
  /\ changes \in 0..MaxChanges
  /\ outages \in 0..MaxOutages
  /\ restarts \in 0..MaxRestarts

RecordType ==
  /\ {baseline, saved, got, shown} \subseteq Sections
  /\ failed \in SUBSET Provider
  /\ moved \in SUBSET Provider

LoopType ==
  /\ phase \in {"waiting", "gathering", "posting", "peeking", "ended"}
  /\ streak \in 0..MaxIdentical
  /\ halted \in BOOLEAN
  /\ calm \in BOOLEAN
  /\ late \in Nat

(* The type invariant in parts.                                            *)
LEMMA TypeParts ==
  /\ TypeOK <=> WorldType /\ RunnerType /\ RecordType /\ LoopType
  /\ TypeOK' <=> WorldType' /\ RunnerType' /\ RecordType' /\ LoopType'
BY DEF TypeOK, WorldType, RunnerType, RecordType, LoopType

(* No sections are sections.                                               *)
LEMMA NothingTyped == Nothing \in Sections
BY DEF Nothing, Sections

(* A gather delivers sections.                                             *)
LEMMA GatheredTyped ==
  ASSUME WorldType
  PROVE  Gathered \in Sections
BY DEF WorldType, Gathered, Sections

(* So does the merge.                                                      *)
LEMMA MergedTyped ==
  ASSUME WorldType, RecordType
  PROVE  Merged \in Sections
BY DEF WorldType, RecordType, Merged, Sections

(* What is recorded for the properties has its types.                      *)
LEMMA RecordedTyped ==
  ASSUME RecordType, Recorded
  PROVE  /\ shown' \in Sections /\ moved' \in SUBSET Provider /\ calm' \in BOOLEAN
<1>1. \A p \in Provider : Told(p) \in Section \cup {Silent, "due", "fresh"}
  BY DEF RecordType, Told, Sections
<1>2. shown' \in Sections
  BY <1>1 DEF RecordType, Recorded, Sections
<1>3. moved' \in SUBSET Provider
  BY DEF RecordType, Recorded, Rendered
<1>4. calm' \in BOOLEAN
  BY Zenon DEF Recorded
<1>5. QED BY <1>2, <1>3, <1>4

(* The first boot satisfies the invariant.                                 *)
LEMMA Initially ==
  ASSUME DigestAssumption, Init
  PROVE  IInv
<1>1. MaxFailures \in Nat \ {0} /\ MaxIdentical \in Nat \ {0} /\ LastStep \in Nat
      /\ MaxChanges \in Nat /\ MaxOutages \in Nat /\ MaxRestarts \in Nat
  BY DEF DigestAssumption
<1>2. WorldType
  BY <1>1, SMT DEF Init, WorldType
<1>3. RunnerType
  BY <1>1, SMT DEF Init, RunnerType
<1>4. RecordType
  BY NothingTyped DEF Init, RecordType
<1>5. LoopType
  <2>1. streak \in 0..MaxIdentical /\ late \in Nat
    BY <1>1, SMT DEF Init
  <2>2. /\ phase \in {"waiting", "gathering", "posting", "peeking", "ended"}
        /\ halted \in BOOLEAN /\ calm \in BOOLEAN
    BY DEF Init
  <2>3. QED BY <2>1, <2>2 DEF LoopType
<1>6. TypeOK
  BY <1>2, <1>3, <1>4, <1>5, TypeParts
<1>7. RowsCounted
  BY <1>1, SMT DEF Init, RowsCounted
<1>8. Settled
  BY DEF Init, Settled, BaselineIsShown, CalmIsSettled, NoDoubleFire
<1>9. Breaker
  BY <1>1, SMT DEF Init, Breaker, StreakBelow, LateInFlight
<1>10. QED BY <1>6, <1>7, <1>8, <1>9 DEF IInv

-----------------------------------------------------------------------------
(* The world changes: nothing the other parts of the invariant speak of.   *)

LEMMA WorldKeeps ==
  ASSUME DigestAssumption, IInv, NEW p \in Provider,
         Change(p) \/ FallsDue(p) \/ GoesDown(p) \/ ComesUp(p)
  PROVE  IInv'
<1>1. UNCHANGED <<restarts, runner, record, phase, got, failed, guard, calm, late>>
  BY DEF Change, FallsDue, GoesDown, ComesUp
<1>2. WorldType'
  <2>0. MaxChanges \in Nat /\ MaxOutages \in Nat /\ WorldType
    BY TypeParts DEF DigestAssumption, IInv
  <2>s. \A q \in Provider : Says(q) \subseteq Section \cup {Silent, "due", "fresh"}
    BY DEF Says
  <2>1. CASE Change(p)
    <3>1. PICK c \in Says(p) \cup {Silent} : says' = [says EXCEPT ![p] = c]
      BY <2>1 DEF Change
    <3>2. says' \in Sections /\ \A q \in Provider : says'[q] \in Says(q) \cup {Silent}
      BY <3>1, <2>0, <2>s DEF WorldType, Sections
    <3>3. changes' \in 0..MaxChanges /\ UNCHANGED <<down, outages, restarts>>
      BY <2>1, <2>0, SMT DEF Change, WorldType
    <3>4. QED BY <2>0, <3>2, <3>3 DEF WorldType, Says
  <2>2. CASE FallsDue(p)
    <3>1. says[p] = "fresh" /\ says' = [says EXCEPT ![p] = "due"]
      BY <2>2 DEF FallsDue
    <3>2. "due" \in Says(p)
      <4>1. "fresh" \in Says(p)
        BY <3>1, <2>0 DEF WorldType, Silent
      <4>2. QED BY <4>1 DEF Says, DigestAssumption
    <3>3. says' \in Sections /\ \A q \in Provider : says'[q] \in Says(q) \cup {Silent}
      BY <3>1, <3>2, <2>0, <2>s DEF WorldType, Sections
    <3>4. UNCHANGED <<down, changes, outages, restarts>>
      BY <2>2 DEF FallsDue
    <3>5. QED BY <2>0, <3>3, <3>4 DEF WorldType, Says
  <2>3. CASE GoesDown(p)
    BY <2>3, <2>0, SMT DEF GoesDown, WorldType, Says
  <2>4. CASE ComesUp(p)
    BY <2>4, <2>0, SMT DEF ComesUp, WorldType, Says
  <2>5. QED BY <2>1, <2>2, <2>3, <2>4
<1>3. RunnerType' /\ RecordType' /\ LoopType'
  BY <1>1, TypeParts DEF IInv, RunnerType, RecordType, LoopType, runner, record, guard
<1>4. RowsCounted' /\ Settled' /\ Breaker'
  BY <1>1 DEF IInv, RowsCounted, Settled, BaselineIsShown, CalmIsSettled, NoDoubleFire,
              Breaker, StreakBelow, LateInFlight, runner, record, guard
<1>5. QED BY <1>2, <1>3, <1>4, TypeParts DEF IInv

(* The guard latches, and only while no late digest was posted.            *)
LEMMA OutputKeeps ==
  ASSUME DigestAssumption, IInv, NEW isReplay \in BOOLEAN, RoutineOutput(isReplay)
  PROVE  IInv'
<1>1. UNCHANGED <<world, restarts, runner, record, phase, got, failed, calm, late>>
  BY DEF RoutineOutput
<1>2. /\ ~halted
      /\ streak' = IF isReplay THEN streak + 1 ELSE 0
      /\ halted' = (streak' >= MaxIdentical)
  BY DEF RoutineOutput
<1>3. streak \in Nat /\ streak < MaxIdentical /\ MaxIdentical \in Nat \ {0}
  BY <1>2, TypeParts, SMT DEF IInv, LoopType, Breaker, StreakBelow, DigestAssumption
<1>4. streak' \in 0..MaxIdentical
  BY <1>2, <1>3, SMT
<1>5. halted' \in BOOLEAN
  BY <1>2
<1>6. late = 0
  BY <1>2 DEF IInv, Breaker, LateInFlight
<1>7. WorldType' /\ RunnerType' /\ RecordType' /\ LoopType'
  BY <1>1, <1>4, <1>5, TypeParts
     DEF IInv, WorldType, RunnerType, RecordType, LoopType, world, runner, record, Says
<1>8. RowsCounted' /\ Settled'
  BY <1>1 DEF IInv, RowsCounted, Settled, BaselineIsShown, CalmIsSettled, NoDoubleFire,
              runner, record
<1>9. Breaker'
  <2>1. CASE streak' >= MaxIdentical
    BY <2>1, <1>1, <1>2, <1>6 DEF Breaker, StreakBelow, LateInFlight
  <2>2. CASE ~(streak' >= MaxIdentical)
    <3>1. streak' < MaxIdentical
      BY <2>2, <1>3, <1>4, SMT
    <3>2. QED BY <3>1, <1>1, <1>6 DEF Breaker, StreakBelow, LateInFlight
  <2>3. QED BY <2>1, <2>2
<1>10. QED BY <1>7, <1>8, <1>9, TypeParts DEF IInv

-----------------------------------------------------------------------------
(* The tick.                                                               *)

(* A tick begins, with the breaker closed.                                 *)
LEMMA BeginKeeps ==
  ASSUME DigestAssumption, IInv, BeginTick
  PROVE  IInv'
<1>1. /\ phase = "waiting" /\ ~halted /\ AskProviders /\ phase' = "gathering"
      /\ UNCHANGED <<world, restarts, record, got, failed, guard, calm, late, misses>>
  BY DEF BeginTick
<1>2. RunnerType' /\ RowsCounted' /\ disabled' \subseteq disabled
  BY <1>1, AskKeeps, TypeParts DEF IInv
<1>3. WorldType' /\ RecordType' /\ LoopType'
  BY <1>1, TypeParts DEF IInv, WorldType, RecordType, LoopType, world, record, guard, Says
<1>4. Settled'
  BY <1>1, <1>2 DEF IInv, Settled, BaselineIsShown, CalmIsSettled, NoDoubleFire, record
<1>5. Breaker'
  BY <1>1 DEF IInv, Breaker, StreakBelow, LateInFlight, guard
<1>6. QED BY <1>2, <1>3, <1>4, <1>5, TypeParts DEF IInv

(* The loop ends.                                                          *)
LEMMA LoopEndKeeps ==
  ASSUME DigestAssumption, IInv, LoopEnds
  PROVE  IInv'
<1>1. /\ phase = "waiting" /\ phase' = "ended"
      /\ UNCHANGED <<world, restarts, runner, record, got, failed, guard, calm, late>>
  BY DEF LoopEnds
<1>2. WorldType' /\ RunnerType' /\ RecordType' /\ LoopType'
  BY <1>1, TypeParts
     DEF IInv, WorldType, RunnerType, RecordType, LoopType, world, runner, record, guard, Says
<1>3. RowsCounted'
  BY <1>1 DEF IInv, RowsCounted, runner
<1>4. Settled' /\ Breaker'
  BY <1>1 DEF IInv, Settled, BaselineIsShown, CalmIsSettled, NoDoubleFire, Breaker,
              StreakBelow, LateInFlight, runner, record, guard
<1>5. QED BY <1>2, <1>3, <1>4, TypeParts DEF IInv

(* A gather ends without a post.                                           *)
LEMMA TickEndKeeps ==
  ASSUME DigestAssumption, IInv, phase = "gathering", TickEnds
  PROVE  IInv'
<1>1. /\ phase' = "waiting" /\ CountFailures /\ calm' = (calm /\ Failing = {})
      /\ UNCHANGED <<world, restarts, record, got, failed, guard, late>>
  BY DEF TickEnds
<1>2. RunnerType' /\ RowsCounted' /\ (Failing = {} => disabled' = disabled)
  BY <1>1, CountKeeps, TypeParts DEF IInv
<1>3. WorldType' /\ RecordType' /\ LoopType'
  <2>1. calm' \in BOOLEAN
    BY <1>1
  <2>2. QED BY <1>1, <2>1, TypeParts
            DEF IInv, WorldType, RecordType, LoopType, world, record, guard, Says
<1>4. Settled'
  <2>1. calm' => calm /\ disabled' = disabled
    BY <1>1, <1>2
  <2>2. QED BY <1>1, <2>1
            DEF IInv, Settled, BaselineIsShown, CalmIsSettled, NoDoubleFire, record
<1>5. Breaker'
  BY <1>1 DEF IInv, Breaker, StreakBelow, LateInFlight, guard
<1>6. QED BY <1>2, <1>3, <1>4, <1>5, TypeParts DEF IInv

(* A digest is posted: in calm the baseline is what was shown and nobody   *)
(* is left out, so what differs from the one differs from the other.       *)
LEMMA FireKeeps ==
  ASSUME DigestAssumption, IInv, TickFires
  PROVE  IInv'
<1>1. /\ phase = "gathering" /\ ShouldFire /\ phase' = "posting" /\ CountFailures
      /\ got' = Gathered /\ failed' = Failing /\ calm' = (calm /\ Failing = {})
      /\ late' = late + IF halted THEN 1 ELSE 0
      /\ UNCHANGED <<world, restarts, record, guard>>
  BY DEF TickFires
<1>2. RunnerType' /\ RowsCounted' /\ (Failing = {} => disabled' = disabled)
  BY <1>1, CountKeeps, TypeParts DEF IInv
<1>3. late = 0
  BY <1>1 DEF IInv, Breaker, LateInFlight
<1>4. WorldType' /\ RecordType' /\ LoopType'
  <2>1. calm' \in BOOLEAN
    BY <1>1
  <2>2. late' \in Nat
    BY <1>1, <1>3, SMT
  <2>3. WorldType'
    BY <1>1, TypeParts DEF IInv, WorldType, world, Says
  <2>4. RecordType'
    <3>1. Failing \in SUBSET Provider
      BY DEF Failing, Asked
    <3>2. QED BY <1>1, <3>1, GatheredTyped, TypeParts DEF IInv, RecordType, record
  <2>5. LoopType'
    BY <1>1, <2>1, <2>2, TypeParts DEF IInv, LoopType, guard
  <2>6. QED BY <2>3, <2>4, <2>5
<1>5. Settled'
  <2>1. calm' => calm /\ disabled' = disabled
    BY <1>1, <1>2
  <2>2. BaselineIsShown' /\ CalmIsSettled'
    BY <1>1, <2>1 DEF IInv, Settled, BaselineIsShown, CalmIsSettled, record
  <2>3. ASSUME calm' PROVE \E p \in Provider \ disabled' : got'[p] # shown'[p]
    <3>1. moved = {} /\ disabled' = {}
      BY <2>3, <2>1 DEF IInv, Settled, CalmIsSettled
    <3>2. PICK p \in Provider : Gathered[p] # baseline[p]
      BY <1>1 DEF ShouldFire
    <3>3. baseline[p] = shown[p]
      BY <3>1 DEF IInv, Settled, BaselineIsShown
    <3>4. QED BY <3>1, <3>2, <3>3, <1>1 DEF record
  <2>4. QED BY <2>2, <2>3 DEF Settled, NoDoubleFire
<1>6. Breaker'
  <2>1. StreakBelow'
    BY <1>1 DEF IInv, Breaker, StreakBelow, guard
  <2>2. late' = 0 \/ (late' = 1 /\ halted)
    BY <1>1, <1>3, SMT
  <2>3. QED BY <1>1, <2>1, <2>2 DEF Breaker, LateInFlight, guard
<1>7. QED BY <1>2, <1>4, <1>5, <1>6, TypeParts DEF IInv

(* A post fails: nothing is recorded.                                      *)
LEMMA PostFailKeeps ==
  ASSUME DigestAssumption, IInv, PostFails
  PROVE  IInv'
<1>1. /\ phase = "posting" /\ phase' = "waiting" /\ got' = Nothing /\ failed' = {}
      /\ calm' = FALSE
      /\ UNCHANGED <<world, restarts, runner, record, guard, late>>
  BY DEF PostFails
<1>2. WorldType' /\ RunnerType' /\ RecordType' /\ LoopType'
  BY <1>1, TypeParts, NothingTyped
     DEF IInv, WorldType, RunnerType, RecordType, LoopType, world, runner, record, guard, Says
<1>3. RowsCounted'
  BY <1>1 DEF IInv, RowsCounted, runner
<1>4. Settled' /\ Breaker'
  BY <1>1 DEF IInv, Settled, BaselineIsShown, CalmIsSettled, NoDoubleFire, Breaker,
              StreakBelow, LateInFlight, runner, record, guard
<1>5. QED BY <1>2, <1>3, <1>4, TypeParts DEF IInv

(* A post succeeds: goals are stamped.                                     *)
LEMMA PostSuccessKeeps ==
  ASSUME DigestAssumption, IInv, PostSucceeds
  PROVE  IInv'
<1>1. /\ phase = "posting" /\ phase' = "peeking"
      /\ UNCHANGED <<down, changes, outages, restarts, runner, record, got, failed,
                     guard, calm, late>>
  BY DEF PostSucceeds
<1>2. PICK stamped \in {Rendered \cap Cadenced, {}} :
        says' = [p \in Provider |-> IF p \in stamped /\ says[p] # Silent
                                   THEN "fresh" ELSE says[p]]
  BY DEF PostSucceeds
<1>3. WorldType'
  <2>1. WorldType
    BY TypeParts DEF IInv
  <2>2. says' \in Sections
    BY <1>2, <2>1 DEF WorldType, Sections
  <2>3. \A p \in Provider : says'[p] \in Says(p) \cup {Silent}
    <3>1. \A p \in stamped : p \in Cadenced
      BY <1>2
    <3>2. QED BY <1>2, <3>1, <2>1 DEF WorldType, Says
  <2>4. QED BY <1>1, <2>1, <2>2, <2>3 DEF WorldType, Says
<1>4. RunnerType' /\ RecordType' /\ LoopType'
  BY <1>1, TypeParts DEF IInv, RunnerType, RecordType, LoopType, runner, record, guard
<1>5. RowsCounted'
  BY <1>1 DEF IInv, RowsCounted, runner
<1>6. Settled' /\ Breaker'
  BY <1>1 DEF IInv, Settled, BaselineIsShown, CalmIsSettled, NoDoubleFire, Breaker,
              StreakBelow, LateInFlight, runner, record, guard
<1>7. QED BY <1>3, <1>4, <1>5, <1>6, TypeParts DEF IInv

(* The digest is recorded: an entry that is written is what the agent was  *)
(* told, or the provider has moved.                                        *)
LEMMA PeekKeeps ==
  ASSUME DigestAssumption, IInv, PeekEnds
  PROVE  IInv'
<1>1. /\ phase = "peeking" /\ phase' = "waiting" /\ baseline' = Merged
      /\ saved' \in {Merged, saved} /\ Recorded /\ got' = Nothing /\ failed' = {}
      /\ UNCHANGED <<world, restarts, runner, guard, late>>
  BY DEF PeekEnds
<1>2. WorldType /\ RunnerType /\ RecordType /\ LoopType
  BY TypeParts DEF IInv
<1> DEFINE drifted == {p \in Rendered \cap Answering : says[p] \notin {Told(p), Silent}}
           kept == {p \in Rendered : (p \notin Answering \/ says[p] = Silent)
                                     /\ Told(p) # got[p]}
           dropped == RanOK \ Rendered
<1>3. /\ shown' = [p \in Provider |-> IF p \in Rendered THEN Told(p)
                                      ELSE IF p \in dropped THEN Silent
                                      ELSE shown[p]]
      /\ moved' = (moved \ (Rendered \cup dropped)) \cup drifted \cup kept
      /\ calm' = (drifted = {} /\ kept = {} /\ Answering = Provider /\ failed = {})
  BY <1>1 DEF Recorded
<1>4. WorldType' /\ RunnerType' /\ RecordType' /\ LoopType'
  <2>1. Merged \in Sections
    BY <1>2, MergedTyped
  <2>2. shown' \in Sections /\ moved' \in SUBSET Provider /\ calm' \in BOOLEAN
    BY <1>1, <1>2, RecordedTyped
  <2>3. RecordType'
    BY <1>1, <1>2, <2>1, <2>2, NothingTyped DEF RecordType
  <2>4. QED BY <1>1, <1>2, <2>2, <2>3
            DEF WorldType, RunnerType, LoopType, world, runner, guard, Says
<1>5. RowsCounted'
  BY <1>1 DEF IInv, RowsCounted, runner
<1>6. BaselineIsShown'
  <2> SUFFICES ASSUME NEW p \in Provider, p \notin moved'
               PROVE  Merged[p] = shown'[p]
    BY <1>1 DEF BaselineIsShown
  <2>1. p \notin drifted /\ p \notin kept /\ (p \in moved => p \in Rendered \cup dropped)
    BY <1>3
  <2>2. CASE p \in Rendered /\ p \in Answering /\ says[p] # Silent
    BY <2>1, <2>2, <1>3 DEF Merged
  <2>3. CASE p \in Rendered /\ (p \notin Answering \/ says[p] = Silent)
    BY <2>1, <2>3, <1>3 DEF Merged
  <2>4. CASE p \in dropped
    BY <2>4, <1>3 DEF Merged
  <2>5. CASE p \notin Rendered /\ p \notin dropped
    BY <2>1, <2>5, <1>3 DEF Merged, IInv, Settled, BaselineIsShown
  <2>6. QED BY <2>2, <2>3, <2>4, <2>5
<1>7. CalmIsSettled'
  <2> SUFFICES ASSUME calm' PROVE moved' = {} /\ disabled = {}
    BY <1>1 DEF CalmIsSettled, runner
  <2>1. drifted = {} /\ kept = {} /\ Answering = Provider /\ failed = {}
    BY <1>3
  <2>2. disabled = {}
    BY <2>1, <1>2 DEF Answering, Asked, RunnerType
  <2>3. Rendered \cup dropped = Provider
    BY <2>1 DEF RanOK, Rendered
  <2>4. moved \subseteq Provider
    BY <1>2 DEF RecordType
  <2>5. moved' = {}
    <3> HIDE DEF drifted, kept, dropped
    <3> QED BY <1>3, <2>1, <2>3, <2>4
  <2>6. QED BY <2>2, <2>5
<1>8. Settled'
  BY <1>1, <1>6, <1>7 DEF Settled, NoDoubleFire
<1>9. Breaker'
  BY <1>1 DEF IInv, Breaker, StreakBelow, LateInFlight, guard
<1>10. QED BY <1>4, <1>5, <1>8, <1>9, TypeParts DEF IInv

(* A restart: what the loaded baseline lacks has moved.                    *)
LEMMA RestartKeeps ==
  ASSUME DigestAssumption, IInv, Restart
  PROVE  IInv'
<1>1. MaxFailures \in Nat \ {0} /\ MaxIdentical \in Nat \ {0} /\ LastStep \in Nat
      /\ MaxRestarts \in Nat
  BY DEF DigestAssumption
<1>2. WorldType /\ RecordType
  BY TypeParts DEF IInv
<1>3. WorldType'
  BY <1>1, <1>2, SMT DEF Restart, WorldType, world, Says
<1>4. RunnerType'
  BY <1>1, SMT DEF Restart, RunnerType
<1>5. RecordType'
  BY <1>2, NothingTyped DEF Restart, RecordType
<1>6. LoopType'
  <2>1. streak' \in 0..MaxIdentical /\ late' \in Nat
    BY <1>1, SMT DEF Restart
  <2>2. phase' = "waiting" /\ halted' \in BOOLEAN /\ calm' \in BOOLEAN
    BY DEF Restart
  <2>3. QED BY <2>1, <2>2 DEF LoopType
<1>7. RowsCounted'
  BY <1>1, SMT DEF Restart, RowsCounted
<1>8. Settled'
  BY DEF Restart, Settled, BaselineIsShown, CalmIsSettled, NoDoubleFire
<1>9. Breaker'
  BY <1>1, SMT DEF Restart, Breaker, StreakBelow, LateInFlight
<1>10. QED BY <1>3, <1>4, <1>5, <1>6, <1>7, <1>8, <1>9, TypeParts DEF IInv

(* Every step keeps the invariant.                                         *)
LEMMA NextKeeps ==
  ASSUME DigestAssumption, IInv, [Next]_vars
  PROVE  IInv'
<1>1. CASE Tick
  <2>1. CASE TickSleeps \/ TickUnchanged \/ TickSkipped
    BY <2>1, TickEndKeeps DEF TickSleeps, TickUnchanged, TickSkipped
  <2>2. QED BY <1>1, <2>1, BeginKeeps, LoopEndKeeps, FireKeeps, PostFailKeeps,
               PostSuccessKeeps, PeekKeeps DEF Tick
<1>2. CASE Restart
  BY <1>2, RestartKeeps
<1>3. CASE \E p \in Provider : Change(p) \/ FallsDue(p) \/ GoesDown(p) \/ ComesUp(p)
  BY <1>3, WorldKeeps
<1>4. CASE \E isReplay \in BOOLEAN : RoutineOutput(isReplay)
  BY <1>4, OutputKeeps
<1>5. CASE UNCHANGED vars
  <2>1. UNCHANGED <<world, restarts, runner, record, phase, got, failed, guard, calm, late>>
    BY <1>5 DEF vars
  <2>2. WorldType' /\ RunnerType' /\ RecordType' /\ LoopType'
    BY <2>1, TypeParts
       DEF IInv, WorldType, RunnerType, RecordType, LoopType, world, runner, record, guard, Says
  <2>3. RowsCounted'
    BY <2>1 DEF IInv, RowsCounted, runner
  <2>4. Settled' /\ Breaker'
    BY <2>1 DEF IInv, Settled, BaselineIsShown, CalmIsSettled, NoDoubleFire, Breaker,
                StreakBelow, LateInFlight, runner, record, guard
  <2>5. QED BY <2>2, <2>3, <2>4, TypeParts DEF IInv
<1>6. QED BY <1>1, <1>2, <1>3, <1>4, <1>5 DEF Next

(* The invariant holds.                                                    *)
LEMMA Invariant ==
  ASSUME DigestAssumption
  PROVE  Spec => []IInv
BY Initially, NextKeeps, PTL DEF Spec

-----------------------------------------------------------------------------
(* The theorems.                                                           *)

(* Every variable of the idle loop keeps its type; in particular failures, *)
(* backoff and the breaker's streak stay within their limits.              *)
THEOREM DigestTypeCorrect ==
  ASSUME DigestAssumption
  PROVE  Spec => []TypeOK
<1>1. IInv => TypeOK
  BY DEF IInv
<1>2. QED BY <1>1, Invariant, PTL

(* In calm no digest repeats what the agent was told.                      *)
THEOREM CalmNeverRepeats ==
  ASSUME DigestAssumption
  PROVE  Spec => []NoDoubleFire
<1>1. IInv => NoDoubleFire
  BY DEF IInv, Settled
<1>2. QED BY <1>1, Invariant, PTL

(* Between gathers exactly those are quarantined that missed MaxFailures   *)
(* ticks in a row.                                                         *)
THEOREM QuarantineIsEarned ==
  ASSUME DigestAssumption
  PROVE  Spec => []QuarantineEarned
<1>1. IInv => QuarantineEarned
  <2> SUFFICES ASSUME IInv, phase # "gathering"
               PROVE  disabled = {p \in Provider : misses[p] = MaxFailures}
    BY DEF QuarantineEarned
  <2>1. disabled \subseteq Provider /\ failures \in [Provider -> 0..MaxFailures]
        /\ MaxFailures \in Nat
    BY TypeParts DEF IInv, RunnerType, DigestAssumption
  <2>2. \A p \in Provider : p \notin disabled => misses[p] # MaxFailures
    <3> SUFFICES ASSUME NEW p \in Provider, p \notin disabled
                 PROVE  misses[p] # MaxFailures
      OBVIOUS
    <3>1. failures[p] < MaxFailures /\ misses[p] = failures[p]
      BY DEF IInv, RowsCounted
    <3>2. QED BY <3>1, <2>1, SMT
  <2>3. QED BY <2>1, <2>2 DEF IInv, RowsCounted
<1>2. QED BY <1>1, Invariant, PTL

(* The open breaker lets at most the digest in flight pass.                *)
THEOREM AtMostOneLate ==
  ASSUME DigestAssumption
  PROVE  Spec => []LateOnce
<1>1. IInv => LateOnce
  BY SMT DEF IInv, Breaker, LateInFlight, LateOnce
<1>2. QED BY <1>1, Invariant, PTL

(* An unchanged tick has nothing left to tell, but what moved before it    *)
(* was recorded.                                                           *)
THEOREM NothingIsMissed ==
  ASSUME DigestAssumption
  PROVE  Spec => NothingMissed
<1>1. ASSUME IInv, TickUnchanged, NEW p \in Answering \ moved
      PROVE  says[p] = shown[p]
  <2>1. p \in Provider \ Failing
    BY <1>1 DEF Answering, Failing, Asked
  <2>2. Gathered[p] = baseline[p]
    BY <1>1, <2>1 DEF TickUnchanged, ShouldFire
  <2>3. Gathered[p] = says[p]
    BY <1>1, <2>1 DEF Gathered
  <2>4. baseline[p] = shown[p]
    BY <1>1, <2>1 DEF IInv, Settled, BaselineIsShown
  <2>5. QED BY <2>2, <2>3, <2>4
<1>2. IInv => [TickUnchanged => \A p \in Answering \ moved : says[p] = shown[p]]_vars
  BY <1>1
<1>3. QED BY <1>2, Invariant, PTL DEF NothingMissed

(* What is posted and who is left out has its cause.                       *)
THEOREM FiringHasCause ==
  ASSUME DigestAssumption
  PROVE  Spec => []FiresForCause
<1>1. QED BY CalmNeverRepeats, QuarantineIsEarned, AtMostOneLate, PTL DEF FiresForCause
=============================================================================
