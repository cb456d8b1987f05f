------------------------------- MODULE Schedules -------------------------------
(***************************************************************************)
(* The schedule grid of a workspace: the store that the schedule API       *)
(* writes (schedule_store.py, internal_schedules.py), the seeding from     *)
(* what templates deliver (schedule_seed.py), the two roots that the files *)
(* may live in and the carry-over from the one to the other                *)
(* (trigger_state.py, plugin_state.py), and the engine that disables a     *)
(* schedule whose runs fail at the provider (schedule_engine.py,           *)
(* schedule_outcome.py, a2a_executor.py).                                  *)
(*                                                                         *)
(* No operation awaits between its read and its last write, so operations  *)
(* do not interleave in the one process that writes; but an operation      *)
(* that writes two files may fail, or the process die, after the first.    *)
(* Every call asks anew which root is in use; that one call asks once is   *)
(* an abstraction.                                                         *)
(***************************************************************************)
EXTENDS Naturals, FiniteSets

CONSTANTS
  Name,         \* of schedules
  Template,     \* the names the template delivers
  MaxEntries,   \* MAX_ENTRIES
  DisableAfter, \* DISABLE_AFTER_SDK_ERRORS
  MaxRelease,   \* bound: the releases of the template
  MaxMoves      \* bound: the changes of root

ASSUME ScheduleAssumption ==
  /\ Template \subseteq Name
  /\ {MaxEntries, DisableAfter, MaxRelease} \subseteq Nat \ {0} /\ MaxMoves \in Nat

VARIABLES
  (* On disk, in each of the two roots: *)
  grid,     \* the entries
  tombs,    \* schedule-tombstones.json
  errors,   \* consecutive_sdk_errors
  found,    \* the roots that have a grid file
  spoiled,  \* the grid file of the durable root was cut and does not parse
  (* The process: *)
  root,     \* the root that a call resolves to
  tried,    \* _migration_attempted
  fed,      \* the root that the scheduler daemon was given
  moves,    \* the changes of root
  release,  \* of the template
  seeded,   \* the names seeded since the boot or the last change of root
  flying,   \* the schedules with a turn in flight
  (* Kept for the properties only, the first four for each root: *)
  mine,     \* the names whose last operation of the user made or edited them
  deleted,  \* those whose last operation deleted them
  torn,     \* those whose deletion did not get to its tombstone
  missed,   \* those with a streak that missed a good run
  left,     \* the tombstones that the carry-over left behind
  lapsed,   \* the root in use lacks what another one has
  run       \* the runs at the end of the history that failed at the provider

stores == <<grid, tombs, found, spoiled>>
streaks == <<errors, missed, run>>
process == <<root, moves, tried, fed, release>>
owners == <<mine, deleted, torn, left, lapsed>>
scheduleVars == <<stores, streaks, process, seeded, flying, owners>>

(* /configs/schedules, and .trigger-state on the declared durable volume.  *)
Roots == {"legacy", "durable"}

Absent == [source |-> "none", text |-> 0, enabled |-> FALSE]

(* The text of an entry: 0 for the user's, or the release it came with.    *)
Entry == [source : {"template", "runtime", "untagged"}, text : 0..MaxRelease, enabled : BOOLEAN]

NameSets == [Roots -> SUBSET Name]
ScheduleTypeOK ==
  /\ grid \in [Roots -> [Name -> Entry \cup {Absent}]]
  /\ {tombs, mine, deleted, torn, missed} \subseteq NameSets
  /\ errors \in [Roots -> [Name -> 0..(DisableAfter + 1)]]
  /\ found \subseteq Roots /\ {root, fed} \subseteq Roots
  /\ {spoiled, tried, lapsed} \subseteq BOOLEAN
  /\ moves \in 0..MaxMoves
  /\ release \in 1..MaxRelease
  /\ {seeded, flying, left} \subseteq SUBSET Name
  /\ run \in [Name -> 0..DisableAfter]

NoEntries == [n \in Name |-> Absent]
NoStreaks == [n \in Name |-> 0]
NoNames == [r \in Roots |-> {}]

ScheduleInit ==
  /\ grid = [r \in Roots |-> NoEntries]
  /\ errors = [r \in Roots |-> NoStreaks]
  /\ tombs = NoNames /\ mine = NoNames /\ deleted = NoNames /\ torn = NoNames
  /\ missed = NoNames
  /\ found = {} /\ spoiled = FALSE
  /\ root = "legacy" /\ moves = 0 /\ tried = FALSE /\ fed = "legacy"
  /\ release = 1
  /\ seeded = {} /\ flying = {} /\ left = {} /\ lapsed = FALSE
  /\ run = NoStreaks

Present(g) == {n \in Name : g[n] # Absent}
Has(n) == n \in Present(grid[root])

(* load() raises for a grid that does not parse, and the operation ends.   *)
Loads(r) == r = "durable" => ~spoiled
Fires(r, n) == Loads(r) /\ grid[r][n].enabled

Writes(g) ==
  /\ grid' = [grid EXCEPT ![root] = g]
  /\ found' = found \cup {root}
  /\ UNCHANGED spoiled

Add(sets, n) == [sets EXCEPT ![root] = @ \cup {n}]
Drop(sets, n) == [sets EXCEPT ![root] = @ \ {n}]

-------------------------------------------------------------------------------
(* The API.                                                                *)

(* What the user did last with a name; no older cause stays.               *)
Owns(n) ==
  /\ mine' = Add(mine, n) /\ deleted' = Drop(deleted, n) /\ torn' = Drop(torn, n)
  /\ left' = IF root = "durable" THEN left \ {n} ELSE left

(* create(): the user's entry, and then its tombstone is removed.          *)
Creates(n) ==
  /\ Loads(root) /\ ~Has(n)
  /\ Cardinality(Present(grid[root])) + 1 <= MaxEntries
  /\ Writes([grid[root] EXCEPT ![n] = [source |-> "runtime", text |-> 0, enabled |-> TRUE]])
  /\ tombs' \in {Drop(tombs, n), tombs}
  /\ Owns(n)
  /\ UNCHANGED <<streaks, process, seeded, flying, lapsed>>

(* update(): the edit takes the ownership.                                 *)
Updates(n, enabled) ==
  /\ Loads(root) /\ Has(n)
  /\ Writes([grid[root] EXCEPT ![n] = [source |-> "runtime", text |-> 0, enabled |-> enabled]])
  /\ Owns(n)
  /\ UNCHANGED <<tombs, streaks, process, seeded, flying, lapsed>>

(* delete(): the grid without the entry, and then its tombstone.  When     *)
(* that write fails, a second call finds no entry and leaves it at that.   *)
Deletes(n) ==
  /\ Loads(root) /\ Has(n)
  /\ Writes([grid[root] EXCEPT ![n] = Absent])
  /\ tombs' \in {Add(tombs, n), tombs}
  /\ mine' = Drop(mine, n) /\ deleted' = Add(deleted, n)
  /\ torn' = IF n \in tombs'[root] THEN Drop(torn, n) ELSE Add(torn, n)
  /\ left' = IF root = "durable" THEN left \ {n} ELSE left
  /\ UNCHANGED <<streaks, process, seeded, flying, lapsed>>

-------------------------------------------------------------------------------
(* Seeding, at boot and at every reload of the daemons.                    *)

(* Mutant: the source of an entry is not looked at.                        *)
Upserted_Clobbers(delivered) ==
  [n \in Name |->
     IF n \in delivered \ tombs[root]
     THEN [source |-> "template", text |-> release, enabled |-> TRUE]
     ELSE grid[root][n]]

(* upsert_template: new entries and the template's own, unless the user    *)
(* has deleted them.                                                       *)
Upserted(delivered) ==
  [n \in Name |->
     IF n \in delivered \ tombs[root] /\ grid[root][n].source \in {"none", "template"}
     THEN [source |-> "template", text |-> release, enabled |-> TRUE]
     ELSE grid[root][n]]

Upserts(delivered) ==
  /\ Loads(root)
  /\ Cardinality(Present(Upserted(delivered))) <= MaxEntries
  /\ Writes(Upserted(delivered))
  /\ seeded' = seeded \cup delivered
  /\ UNCHANGED <<tombs, streaks, process, flying, owners>>

(* The file that a trigger plugin ships: one bad entry, and none is        *)
(* seeded.  What config.yaml or the settings of a plugin deliver: the bad  *)
(* entries are skipped.                                                    *)
SeedsFile == Upserts(Template)
SeedsConfig == \E valid \in (SUBSET Template) \ {{}} : Upserts(valid)
SeedsSettings == \E valid \in (SUBSET Template) \ {{}} : Upserts(valid)

-------------------------------------------------------------------------------
(* The outcomes of runs.                                                   *)

AtMost(n, limit) == IF n < limit THEN n ELSE limit

(* Mutant: the engine disables with update().                              *)
Disabled_Restamps(n) ==
  [grid[root] EXCEPT ![n].enabled = FALSE, ![n].source = "runtime"]

(* set_enabled(): the source stays.                                        *)
Disabled(n) == [grid[root] EXCEPT ![n].enabled = FALSE]

(* Mutant: only the run that completes the streak disables.                *)
Disables_Once(streak) == streak = DisableAfter

(* record_outcome: which streak disables.                                  *)
Disables(streak) == streak >= DisableAfter

(* What can go wrong with an outcome: the file of the streaks cannot be    *)
(* read and counts as empty, or its save or the disabling raises, which is *)
(* logged and no more.                                                     *)
Trouble == {"none", "read", "save", "disable"}

Read(trouble) == IF trouble = "read" THEN NoStreaks ELSE errors[root]

(* The streaks as read and with n's set; the others are written back.  A   *)
(* streak that goes on in a root past a good run is noted.                 *)
Records(n, streak, good, trouble) ==
  /\ n \in flying /\ flying' = flying \ {n}
  /\ errors' = IF trouble = "save" THEN errors
               ELSE [errors EXCEPT ![root] = [Read(trouble) EXCEPT ![n] = streak]]
  /\ missed' = [r \in Roots |->
                  {m \in missed[r] \cup (IF good THEN {n} ELSE {}) : errors'[r][m] > 0}]
  /\ UNCHANGED <<tombs, process, seeded, owners>>

(* The daemon delivers the prompt of a schedule that is due.               *)
RunStarts(n) ==
  /\ Fires(fed, n) /\ n \notin flying
  /\ flying' = flying \cup {n}
  /\ UNCHANGED <<stores, streaks, process, seeded, owners>>

(* A run that failed at the provider: the streak is saved, and then the    *)
(* schedule disabled.                                                      *)
RunFails(n, trouble) ==
  /\ Records(n, AtMost(Read(trouble)[n] + 1, DisableAfter + 1), FALSE, trouble)
  /\ run' = [run EXCEPT ![n] = AtMost(@ + 1, DisableAfter)]
  /\ IF Disables(errors'[root][n]) /\ Fires(root, n) /\ trouble \notin {"save", "disable"}
     THEN Writes(Disabled(n))
     ELSE UNCHANGED <<grid, found, spoiled>>

(* A run that ended with a text.                                           *)
RunEnds(n, trouble) ==
  /\ Records(n, 0, TRUE, trouble)
  /\ run' = [run EXCEPT ![n] = 0]
  /\ UNCHANGED <<grid, found, spoiled>>

(* A run that ended without a text.                                        *)
RunIsEmpty(n, trouble) ==
  /\ Records(n, 0, TRUE, trouble)
  /\ run' = [run EXCEPT ![n] = 0]
  /\ UNCHANGED <<grid, found, spoiled>>

(* A run that failed for a reason of the runtime's: what was read is saved *)
(* again.                                                                  *)
RunIsNeutral(n, trouble) ==
  /\ Records(n, Read(trouble)[n], FALSE, trouble)
  /\ UNCHANGED <<grid, found, spoiled, run>>

-------------------------------------------------------------------------------
(* The roots.                                                              *)

(* What a cut copy of the legacy grid reads as: some of its entries, of    *)
(* which the last may have lost its source.                                *)
Cut ==
  UNION {{[n \in Name |->
             IF n \in kept \ last THEN grid["legacy"][n]
             ELSE IF n \in last THEN [source |-> "untagged", text |-> 0, enabled |-> TRUE]
             ELSE Absent] :
           last \in {s \in SUBSET kept : Cardinality(s) <= 1}} :
         kept \in SUBSET Present(grid["legacy"])}

(* The copy of the legacy grid.  It is not atomic: an error, or the end of *)
(* the process, leaves what was copied, parsing or not, and that wins at   *)
(* every later boot.  The list of files has the tombstones under another   *)
(* name, and the streaks not at all.                                       *)
Copies ==
  \E g \in Cut \cup {grid["legacy"]}, broken \in BOOLEAN :
    /\ broken => g = NoEntries
    /\ grid' = [grid EXCEPT !["durable"] = g]
    /\ spoiled' = broken
    /\ found' = found \cup {"durable"}
    /\ lapsed' = (broken \/ g # grid["legacy"])
    /\ mine' = [mine EXCEPT !["durable"] = {n \in mine["legacy"] : g[n] = grid["legacy"][n]}]
    /\ deleted' = [deleted EXCEPT !["durable"] = deleted["legacy"]]
    /\ torn' = [torn EXCEPT !["durable"] = torn["legacy"]]
    /\ left' = tombs["legacy"]

CopiesNothing == lapsed' = TRUE /\ UNCHANGED <<grid, spoiled, found, mine, deleted, torn, left>>

(* The root becomes or stays r, which a call tells by what is declared,    *)
(* and by whether the directory can be made and probes durable.  The first *)
(* time that a process sees the durable root it carries the legacy grid    *)
(* over, if there is one and the durable root has none; an error there is  *)
(* logged and no more.                                                     *)
MovesTo(r, attempted) ==
  /\ root' = r
  /\ moves' = IF r = root THEN moves ELSE moves + 1
  /\ moves' <= MaxMoves
  /\ tried' = (attempted \/ r = "durable")
  /\ IF r = "durable" /\ "legacy" \in found /\ "durable" \notin found
     THEN \/ ~attempted /\ Copies
          \/ CopiesNothing
     ELSE /\ lapsed' = ("durable" \in found /\ (r = "legacy" \/ lapsed))
          /\ UNCHANGED <<grid, spoiled, found, mine, deleted, torn, left>>
  /\ seeded' = {}
  /\ UNCHANGED <<tombs, errors, missed, run>>

(* Between two calls the answer changes.                                   *)
RootMoves ==
  /\ \E r \in Roots \ {root} : MovesTo(r, tried)
  /\ UNCHANGED <<fed, release, flying>>

(* A boot, perhaps with a new release of the template or another root; the *)
(* daemon gets the root of the boot.                                       *)
Boots ==
  /\ \E r \in Roots : MovesTo(r, FALSE) /\ fed' = r
  /\ release' \in {release, AtMost(release + 1, MaxRelease)}
  /\ flying' = {}

(* A provision recreates the legacy root, and the process boots.           *)
Wipes ==
  LET none(sets) == [sets EXCEPT !["legacy"] = {}] IN
  /\ root = "legacy" /\ fed' = "legacy"
  /\ grid' = [grid EXCEPT !["legacy"] = NoEntries]
  /\ errors' = [errors EXCEPT !["legacy"] = NoStreaks]
  /\ tombs' = none(tombs) /\ missed' = none(missed)
  /\ mine' = none(mine) /\ deleted' = none(deleted) /\ torn' = none(torn)
  /\ found' = found \ {"legacy"}
  /\ tried' = FALSE
  /\ seeded' = {} /\ flying' = {}
  /\ UNCHANGED <<spoiled, root, moves, release, left, lapsed, run>>

-------------------------------------------------------------------------------
Calls == \E n \in Name :
  Creates(n) \/ Deletes(n) \/ \E enabled \in BOOLEAN : Updates(n, enabled)

Runs == \E n \in Name :
  \/ RunStarts(n)
  \/ \E trouble \in Trouble :
       RunFails(n, trouble) \/ RunEnds(n, trouble) \/ RunIsEmpty(n, trouble) \/ RunIsNeutral(n, trouble)

Restarts == RootMoves \/ Boots \/ Wipes

Seeds == SeedsFile \/ SeedsConfig \/ SeedsSettings

ScheduleNext == Calls \/ Seeds \/ Runs \/ Restarts

(* The daemon goes on firing what is enabled, and what can go wrong with   *)
(* an outcome does not go wrong for ever.                                  *)
ScheduleFairness ==
  \A n \in Name : WF_scheduleVars(RunStarts(n)) /\ SF_scheduleVars(RunFails(n, "none"))
ScheduleSpec == ScheduleInit /\ [][ScheduleNext]_scheduleVars /\ ScheduleFairness

-------------------------------------------------------------------------------
(* What the user made or edited in a root is there, with the user's text,  *)
(* whatever releases were seeded; and the root in use has what the user    *)
(* did in any, unless the carry-over failed or was cut short, or the calls *)
(* went back to the legacy root (schedule_store.py:229-265,                *)
(* trigger_state.py:108-159).                                              *)
EditsSurvive ==
  /\ \A r \in Roots, n \in Name :
       n \in mine[r] => grid[r][n].source = "runtime" /\ grid[r][n].text = 0
  /\ ~lapsed => \A r \in Roots : mine[r] \cup deleted[r] \subseteq mine[root] \cup deleted[root]

(* What the user deleted in a root comes back there only if its tombstone  *)
(* was not written, or was left behind by the carry-over.                  *)
ReturnHasCause ==
  \A r \in Roots, n \in Name :
    n \in deleted[r] /\ grid[r][n] # Absent =>
      n \in torn[r] \/ (r = "durable" /\ n \in left)

(* The streak on disk never exceeds the runs that really failed one after  *)
(* the other, save where a good run between them was not recorded in that  *)
(* root: an empty run between two errors breaks it, and no seeding, edit   *)
(* or change of root adds to it (schedule_engine.py:73-80,                 *)
(* a2a_executor.py:398-399).                                               *)
StreakIsReal ==
  \A r \in Roots, n \in Name : n \in missed[r] \/ AtMost(errors[r][n], DisableAfter) <= run[n]

(* What was seeded has reached every entry of the template that the user   *)
(* has not made his own, and that no cut copy left without a source: a     *)
(* disabling by the engine is no edit (schedule_store.py:181-211).         *)
ReleaseArrives ==
  \A n \in seeded \ (mine[root] \cup deleted[root]) :
    grid[root][n].source \notin {"none", "untagged"} => grid[root][n].text = release

(* The grid is the user's where he touched it, and elsewhere the           *)
(* template's.                                                             *)
UserOwnsHis == EditsSurvive /\ ReturnHasCause

(* The engine takes a run for what it was, and its disabling for no edit.  *)
EngineIsFair == StreakIsReal /\ ReleaseArrives

(* A schedule whose runs fail and go on failing is disabled in the end,    *)
(* though the write that disables it may fail at the run that is due to;   *)
(* if the daemon fires from the root that the outcomes are recorded in,    *)
(* and the streak recorded there is not for ever lost again.               *)
FailingIsDisabled ==
  \A n \in Name :
    /\ <>[](run[n] = DisableAfter /\ fed = root)
    /\ <>[][errors'[root][n] >= errors[root][n]]_scheduleVars
    => []<>~Fires(fed, n)

(* "A template entry the user *deleted* is tombstoned (see :meth:`delete`) *)
(* and is NOT re-seeded." (schedule_store.py:245-247), every write         *)
(* succeeding.                                                             *)
DeletedStaysDeleted ==
  \A n \in deleted[root] \ torn[root] : ~lapsed => ~Has(n)
=============================================================================
