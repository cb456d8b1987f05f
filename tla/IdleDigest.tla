------------------------------ MODULE IdleDigest ------------------------------
(***************************************************************************)
(* The idle loop of the workspace: the loop _run_idle_digest_loop of       *)
(* main.py, the tick of idle_digest/controller.py with the provider runner *)
(* of idle_digest/provider.py, and the breaker of autonomous_loop_guard.py *)
(* that ends the loop.                                                     *)
(*                                                                         *)
(* A tick asks every provider for its section, posts the digest to the     *)
(* agent when it differs from the baseline, and asks again for the new     *)
(* baseline.  The post is an HTTP request that lasts as long as the turn   *)
(* of the agent.  An action is the code between two awaits of the loop;    *)
(* the sections change, fail and recover in between.                       *)
(***************************************************************************)
EXTENDS Naturals, FiniteSets

CONSTANTS
  Provider,     \* the digest providers
  Pinned,       \* those whose section is the pinned header
  Cadenced,     \* those whose section says "due" until it was posted
  Section,      \* what the section of any other provider may say
  MaxFailures,  \* policy.max_consecutive_failures
  LastStep,     \* the last index of _REPROBE_BACKOFF_TICKS
  Backoff,      \* _REPROBE_BACKOFF_TICKS, from index 0
  MaxIdentical, \* max_identical() of the breaker
  MaxChanges,   \* bound: how often a section changes by itself
  MaxOutages,   \* bound: how often a provider begins to fail
  MaxRestarts   \* bound: how often the workspace is restarted

Silent == "silent"

ASSUME DigestAssumption ==
  /\ Pinned \subseteq Provider
  /\ Cadenced \subseteq Provider
  /\ Section \cap {Silent, "due", "fresh"} = {}
  /\ MaxFailures \in Nat \ {0}
  /\ LastStep \in Nat
  /\ Backoff \in [0..LastStep -> Nat \ {0}]
  /\ MaxIdentical \in Nat \ {0}
  /\ {MaxChanges, MaxOutages, MaxRestarts} \subseteq Nat

VARIABLES
  says,      \* what a provider would contribute now
  down,      \* the providers that would fail now
  changes, outages, restarts,
  failures,  \* ProviderRunner._failures
  disabled,  \* ProviderRunner._disabled
  cooldown,  \* ProviderRunner._cooldown, 0 for an absent key
  backoff,   \* ProviderRunner._backoff, 0 for an absent key
  baseline,  \* IdleDigestController._baseline
  saved,     \* digest_state.json
  phase,     \* where the loop stands
  got,       \* the sections gathered by this tick
  failed,    \* the providers that failed in it
  streak,    \* _GuardState._consecutive_noop
  halted,    \* _GuardState._halted
  (* Kept for the properties only: *)
  shown,     \* what the agent was last told of a provider
  moved,     \* what has changed between its last telling and the baseline
  calm,      \* nothing failed or moved since the last digest was recorded
  misses,    \* the ticks a provider has failed in a row, up to MaxFailures
  late       \* the digests posted after the breaker had opened

world == <<says, down, changes, outages>>
runner == <<failures, disabled, cooldown, backoff, misses>>
record == <<baseline, saved, shown, moved>>
guard == <<streak, halted>>
vars == <<world, restarts, runner, record, phase, got, failed, guard, calm, late>>

Says(p) == IF p \in Cadenced THEN {"due", "fresh"} ELSE Section
Sections == [Provider -> Section \cup {Silent, "due", "fresh"}]
Nothing == [p \in Provider |-> Silent]

TypeOK ==
  /\ says \in Sections /\ \A p \in Provider : says[p] \in Says(p) \cup {Silent}
  /\ down \in SUBSET Provider
  /\ changes \in 0..MaxChanges
  /\ outages \in 0..MaxOutages
  /\ restarts \in 0..MaxRestarts
  /\ failures \in [Provider -> 0..MaxFailures]
  /\ disabled \in SUBSET Provider
  /\ cooldown \in [Provider -> Nat]
  /\ backoff \in [Provider -> 0..(LastStep + 1)]
  /\ {baseline, saved, got, shown} \subseteq Sections
  /\ phase \in {"waiting", "gathering", "posting", "peeking", "ended"}
  /\ failed \in SUBSET Provider
  /\ streak \in 0..MaxIdentical
  /\ halted \in BOOLEAN
  /\ moved \in SUBSET Provider
  /\ calm \in BOOLEAN
  /\ misses \in [Provider -> 0..MaxFailures]
  /\ late \in Nat

Init ==
  /\ says \in Sections
  /\ \A p \in Provider : says[p] \in (Says(p) \cup {Silent}) \ {"fresh"}
  /\ down = {}
  /\ changes = 0 /\ outages = 0 /\ restarts = 0
  /\ failures = [p \in Provider |-> 0]
  /\ disabled = {}
  /\ cooldown = [p \in Provider |-> 0]
  /\ backoff = [p \in Provider |-> 0]
  /\ baseline = Nothing /\ saved = Nothing
  /\ phase = "waiting"
  /\ got = Nothing
  /\ failed = {}
  /\ streak = 0 /\ halted = FALSE
  /\ shown = Nothing /\ moved = {} /\ calm = TRUE
  /\ misses = [p \in Provider |-> 0]
  /\ late = 0

-----------------------------------------------------------------------------
(* The world around the loop.                                              *)

(* A section gets new content or none; a goal is set (it is due then) or   *)
(* cleared.                                                                *)
Change(p) ==
  /\ changes < MaxChanges
  /\ changes' = changes + 1
  /\ \E c \in (Says(p) \cup {Silent}) \ {says[p], "fresh"} :
       says' = [says EXCEPT ![p] = c]
  /\ UNCHANGED <<down, outages, restarts, runner, record, phase, got, failed,
                 guard, calm, late>>

(* The cadence of a goal has elapsed since it was included.                *)
FallsDue(p) ==
  /\ says[p] = "fresh"
  /\ says' = [says EXCEPT ![p] = "due"]
  /\ UNCHANGED <<down, changes, outages, restarts, runner, record, phase, got,
                 failed, guard, calm, late>>

(* A provider raises, times out or returns an invalid section from now on. *)
GoesDown(p) ==
  /\ p \notin down
  /\ outages < MaxOutages
  /\ outages' = outages + 1
  /\ down' = down \cup {p}
  /\ UNCHANGED <<says, changes, restarts, runner, record, phase, got, failed,
                 guard, calm, late>>

ComesUp(p) ==
  /\ p \in down
  /\ down' = down \ {p}
  /\ UNCHANGED <<says, changes, outages, restarts, runner, record, phase, got,
                 failed, guard, calm, late>>

(* A routine turn of the agent ends: the digest's, or any other self-ping. *)
(* A replay is an output that repeats the last one or says that nothing is *)
(* new.                                                                    *)
RoutineOutput(isReplay) ==
  /\ ~halted
  /\ streak' = IF isReplay THEN streak + 1 ELSE 0
  /\ halted' = (streak' >= MaxIdentical)
  /\ UNCHANGED <<world, restarts, runner, record, phase, got, failed, calm, late>>

-----------------------------------------------------------------------------
(* The provider runner.                                                    *)

(* _due_for_reprobe: the last tick of its cooldown.                        *)
DueForReprobe(p) == p \in disabled /\ cooldown[p] <= 1

AtMost(n, bound) == IF n < bound THEN n ELSE bound

(* Mutant: the cooldown is not counted down.                               *)
AskProviders_NoCountdown ==
  LET probed == {p \in Provider : DueForReprobe(p)}
  IN  /\ disabled' = disabled \ probed
      /\ cooldown' = [p \in Provider |-> IF p \in probed THEN 0 ELSE cooldown[p]]
      /\ backoff' = [p \in Provider |->
                       IF p \in probed THEN AtMost(backoff[p] + 1, LastStep + 1)
                                       ELSE backoff[p]]
      /\ failures' = [p \in Provider |->
                        IF p \in probed THEN MaxFailures - 1 ELSE failures[p]]

(* What a gather does before it asks: quarantined providers sit out their  *)
(* cooldown, and are on probation after it.                                *)
AskProviders ==
  LET probed == {p \in Provider : DueForReprobe(p)}
  IN  /\ disabled' = disabled \ probed
      /\ cooldown' = [p \in Provider |->
                        IF p \in disabled \ probed THEN cooldown[p] - 1 ELSE 0]
      /\ backoff' = [p \in Provider |->
                       IF p \in probed THEN AtMost(backoff[p] + 1, LastStep + 1)
                                       ELSE backoff[p]]
      /\ failures' = [p \in Provider |->
                        IF p \in probed THEN MaxFailures - 1 ELSE failures[p]]

(* Those that were asked, and answer, or fail.                             *)
Asked == Provider \ disabled
Answering == Asked \ down
Failing == Asked \cap down

(* The outcome of a gather: a provider that answers is rehabilitated, one  *)
(* that has failed too often is quarantined.                               *)
CountFailures ==
  LET over == {p \in Failing : failures[p] + 1 >= MaxFailures}
  IN  /\ failures' = [p \in Provider |-> IF p \in Answering THEN 0
                                         ELSE IF p \in Failing THEN failures[p] + 1
                                         ELSE failures[p]]
      /\ disabled' = disabled \cup over
      /\ cooldown' = [p \in Provider |->
                        IF p \in over THEN Backoff[AtMost(backoff[p], LastStep)]
                        ELSE IF p \in Answering THEN 0 ELSE cooldown[p]]
      /\ backoff' = [p \in Provider |-> IF p \in Answering THEN 0 ELSE backoff[p]]
      /\ misses' = [p \in Provider |->
                      IF p \in Answering THEN 0
                      ELSE IF p \in Failing THEN AtMost(misses[p] + 1, MaxFailures)
                      ELSE misses[p]]

-----------------------------------------------------------------------------
(* The tick.                                                               *)

(* The loop wakes up with the breaker closed, no turn in flight and no     *)
(* delegation results on their way.                                        *)
BeginTick ==
  /\ phase = "waiting"
  /\ ~halted
  /\ AskProviders
  /\ phase' = "gathering"
  /\ UNCHANGED <<world, restarts, record, got, failed, guard, calm, late, misses>>

(* The breaker is open: the loop returns.                                  *)
LoopEnds ==
  /\ phase = "waiting"
  /\ halted
  /\ phase' = "ended"
  /\ UNCHANGED <<world, restarts, runner, record, got, failed, guard, calm, late>>

(* What this gather has to say.                                            *)
Gathered == [p \in Provider |-> IF p \in Answering THEN says[p] ELSE Silent]

(* The body is empty when only the header speaks.                          *)
BodyEmpty == \A p \in Provider \ Pinned : Gathered[p] = Silent

(* should_fire: the failed providers are left out of the comparison.       *)
ShouldFire == \E p \in Provider \ Failing : Gathered[p] # baseline[p]

(* The gather ends and there is nothing to post, or a turn has begun.      *)
TickEnds ==
  /\ phase' = "waiting"
  /\ CountFailures
  /\ calm' = (calm /\ Failing = {})
  /\ UNCHANGED <<world, restarts, record, got, failed, guard, late>>

TickSleeps == phase = "gathering" /\ BodyEmpty /\ TickEnds
TickUnchanged == phase = "gathering" /\ ~BodyEmpty /\ ~ShouldFire /\ TickEnds
TickSkipped == phase = "gathering" /\ ~BodyEmpty /\ ShouldFire /\ TickEnds

(* The digest is posted.                                                   *)
TickFires ==
  /\ phase = "gathering"
  /\ ~BodyEmpty
  /\ ShouldFire
  /\ phase' = "posting"
  /\ CountFailures
  /\ got' = Gathered
  /\ failed' = Failing
  /\ calm' = (calm /\ Failing = {})
  /\ late' = late + IF halted THEN 1 ELSE 0
  /\ UNCHANGED <<world, restarts, record, guard>>

(* An HTTP error, or a turn longer than the timeout of the request.        *)
PostFails ==
  /\ phase = "posting"
  /\ phase' = "waiting"
  /\ got' = Nothing
  /\ failed' = {}
  /\ calm' = FALSE
  /\ UNCHANGED <<world, restarts, runner, record, guard, late>>

Rendered == {p \in Provider : got[p] # Silent}

(* The platform has answered: on_included of every included provider, whose *)
(* stamp of a goal is lost when the disk does not take it.                 *)
PostSucceeds ==
  /\ phase = "posting"
  /\ phase' = "peeking"
  /\ \E stamped \in {Rendered \cap Cadenced, {}} :
       says' = [p \in Provider |-> IF p \in stamped /\ says[p] # Silent
                                  THEN "fresh" ELSE says[p]]
  /\ UNCHANGED <<down, changes, outages, restarts, runner, record, got, failed,
                 guard, calm, late>>

(* ran_ok_now, with the outcome of the second gather.                      *)
RanOK == Answering \ failed

(* Mutant: what the second gather finds is the baseline.                   *)
Merged_Peek == [p \in Provider |-> IF p \in Answering THEN says[p]
                                   ELSE IF p \in Rendered THEN got[p]
                                   ELSE baseline[p]]

(* Mutant: the baseline is what was rendered, whatever was reset by it.    *)
Merged_AsRendered ==
  [p \in Provider |-> IF p \in Rendered THEN got[p]
                      ELSE IF p \in RanOK THEN Silent
                      ELSE baseline[p]]

(* The new baseline: a rendered section as it reads now; a working         *)
(* provider with nothing to say drops out; any other keeps its entry.      *)
Merged ==
  [p \in Provider |->
     IF p \in Rendered
     THEN IF p \in Answering /\ says[p] # Silent THEN says[p] ELSE got[p]
     ELSE IF p \in RanOK THEN Silent
     ELSE baseline[p]]

(* What the agent is left with of a section it was shown.                  *)
Told(p) == IF p \in Cadenced THEN "fresh" ELSE got[p]

(* The ghosts after a digest was recorded.                                 *)
Recorded ==
  LET drifted == {p \in Rendered \cap Answering : says[p] \notin {Told(p), Silent}}
      kept == {p \in Rendered : (p \notin Answering \/ says[p] = Silent)
                                /\ Told(p) # got[p]}
      dropped == RanOK \ Rendered
  IN  /\ shown' = [p \in Provider |-> IF p \in Rendered THEN Told(p)
                                      ELSE IF p \in dropped THEN Silent
                                      ELSE shown[p]]
      /\ moved' = (moved \ (Rendered \cup dropped)) \cup drifted \cup kept
      /\ calm' = (drifted = {} /\ kept = {} /\ Answering = Provider /\ failed = {})

(* The second gather ends; the state is saved if the disk allows.          *)
PeekEnds ==
  /\ phase = "peeking"
  /\ phase' = "waiting"
  /\ baseline' = Merged
  /\ saved' \in {Merged, saved}
  /\ Recorded
  /\ got' = Nothing
  /\ failed' = {}
  /\ UNCHANGED <<world, restarts, runner, guard, late>>

(* The workspace is restarted: the baseline is loaded, the rest is new.    *)
Restart ==
  /\ restarts < MaxRestarts
  /\ restarts' = restarts + 1
  /\ failures' = [p \in Provider |-> 0]
  /\ disabled' = {}
  /\ cooldown' = [p \in Provider |-> 0]
  /\ backoff' = [p \in Provider |-> 0]
  /\ misses' = [p \in Provider |-> 0]
  /\ baseline' = saved
  /\ moved' = moved \cup {p \in Provider : saved[p] # shown[p]}
  /\ calm' = FALSE
  /\ phase' = "waiting"
  /\ got' = Nothing
  /\ failed' = {}
  /\ streak' = 0 /\ halted' = FALSE /\ late' = 0
  /\ UNCHANGED <<world, saved, shown>>

-----------------------------------------------------------------------------
Tick == \/ BeginTick \/ LoopEnds
        \/ TickSleeps \/ TickUnchanged \/ TickSkipped \/ TickFires
        \/ PostFails \/ PostSucceeds \/ PeekEnds

Next ==
  \/ Tick \/ Restart
  \/ \E p \in Provider : Change(p) \/ FallsDue(p) \/ GoesDown(p) \/ ComesUp(p)
  \/ \E isReplay \in BOOLEAN : RoutineOutput(isReplay)

(* The loop is a task of the event loop; its requests and its providers    *)
(* have timeouts, turns end and delegation results stop being waited for.  *)
Fairness == WF_vars(Tick)

Spec == Init /\ [][Next]_vars /\ Fairness

-----------------------------------------------------------------------------
(* Properties.                                                             *)

(* No silence: when a tick finds the digest unchanged, the agent was told  *)
(* what every working provider says, over outages, quarantines, failed     *)
(* posts and restarts, unless the section moved before it was recorded.    *)
NothingMissed ==
  [][TickUnchanged => \A p \in Answering \ moved : says[p] = shown[p]]_vars

(* No double fire: when nothing failed or moved since the last digest was  *)
(* recorded, the next one tells the agent something that one did not, and  *)
(* not only because a provider is left out.                                *)
NoDoubleFire ==
  phase = "posting" /\ calm => \E p \in Provider \ disabled : got[p] # shown[p]

(* Between the gathers, quarantined are those that failed MaxFailures      *)
(* ticks in a row: a second look within one tick is not a second failure,  *)
(* and probation ends with one.                                            *)
QuarantineEarned ==
  phase # "gathering" => disabled = {p \in Provider : misses[p] = MaxFailures}

(* A quarantine is no life sentence: a provider that has come up is asked, *)
(* and rehabilitated, or is down again, or the breaker opens.              *)
QuarantineEnds ==
  \A p \in Provider :
    p \in disabled ~> misses[p] = 0 \/ p \in down \/ halted

(* After the breaker has opened at most the digest that was being gathered *)
(* is still posted.                                                        *)
LateOnce == late <= 1

(* An open breaker ends the loop, until a restart.                         *)
HaltEndsLoop == halted ~> phase = "ended" \/ ~halted

(* What is posted and who is left out has its cause, of one tick or of     *)
(* many: news since the last digest, failures in a row, a closed breaker.  *)
FiresForCause == NoDoubleFire /\ QuarantineEarned /\ LateOnce

(* Neither a quarantine nor a loop behind an open breaker lasts.           *)
DigestGoesOn == QuarantineEnds /\ HaltEndsLoop
=============================================================================
