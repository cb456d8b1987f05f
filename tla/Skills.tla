------------------------------- MODULE Skills --------------------------------
(***************************************************************************)
(* The skills of a workspace: what the boot loads of them                  *)
(* (skill_loader/loader.py, adapter_base.py: _common_setup), what the scan *)
(* of their dependencies lets through (builtin_tools/security_scan.py),    *)
(* how an edit reaches the running agent (skill_loader/watcher.py) and how *)
(* the directory of the skills is shown to the runtime's own discovery     *)
(* (skills_render.py).                                                     *)
(*                                                                         *)
(* A copy of a skill is the number of its edit and what matters of its     *)
(* files: whether SKILL.md is there, the requirements and their findings,  *)
(* the runtimes it names, a script that does not import.  An editor is     *)
(* another process: it writes between any two steps.                       *)
(***************************************************************************)
EXTENDS FiniteSets, Naturals

CONSTANTS
    Skill,          \* the skills config.yaml names
    MaxEdits        \* bound on the edits of their files

ASSUME SkillsAssumption == IsFiniteSet(Skill) /\ MaxEdits \in Nat

VARIABLES
    scan,           \* the settings of the scan, and whether a scanner is installed
    disk,           \* the copy of each skill in the configuration directory
    edits,          \* the edits made
    served,         \* the copies the adapter serves
    adapter,        \* what the adapter keeps: "nothing", its list of "skills", the "tools" as well
    routes,         \* the adapter has the tool that routes to the team
    watcher,        \* where the watcher of the skills stands
    baseline,       \* the copies its hashes are of
    changed,        \* the skills it still has to reload
    because,        \* history: why what is served is not what the hashes are of
    surface         \* what the runtime's discovery finds, see below

skills == <<scan, disk, edits, served, adapter, routes, watcher, baseline, changed, because, surface>>

Kind == {"gone", "plain", "pinned", "vulnerable", "foreign", "broken"}
Gone == [edit |-> 0, kind |-> "gone"]
Copies == [edit : 0..MaxEdits, kind : Kind]

\* The runtimes by how they find skills: a link in a directory of their own, an
\* entry in their configuration, the prompt, or in no known way.
Runtimes == {"linking", "listing", "prompted", "unknown"}
\* At the place of the link: nothing, the link, another link, the agent's own
\* directory.  In the configuration: nothing, the entry, other entries, a file
\* that is not a mapping or does not parse, one whose entries are not a list.
Places == {"nothing", "ours", "other", "authored", "misshapen"}

SkillsTypeOK ==
    /\ scan \in [mode : {"off", "warn", "block"}, failOpen : BOOLEAN, installed : BOOLEAN]
    /\ disk \in [Skill -> Copies] /\ edits \in 0..MaxEdits
    /\ served \in [Skill -> Copies]
    /\ adapter \in {"nothing", "skills", "tools"} /\ routes \in BOOLEAN
    /\ watcher \in {"boot", "failed", "loaded", "idle", "settling", "reloading"}
    /\ baseline \in [Skill -> Copies] /\ changed \in SUBSET Skill
    /\ because \in [Skill -> {"nothing", "skipped", "raced", "refused", "unkept"}]
    /\ surface \in [runtime : Runtimes, place : Places, had : Places, shown : BOOLEAN]

SkillsInit ==
    /\ scan \in [mode : {"off", "warn", "block"}, failOpen : BOOLEAN, installed : BOOLEAN]
    /\ disk \in [Skill -> [edit : {0}, kind : {"gone", "plain", "foreign"}]]
    /\ edits = 0
    /\ served = [s \in Skill |-> Gone]
    /\ adapter \in {"nothing", "skills", "tools"} /\ routes = FALSE
    /\ watcher = "boot" /\ baseline = [s \in Skill |-> Gone] /\ changed = {}
    /\ because = [s \in Skill |-> "nothing"]
    /\ \E r \in Runtimes, p \in Places :
          /\ p = "misshapen" => r = "listing"
          /\ surface = [runtime |-> r, place |-> p, had |-> p, shown |-> FALSE]

\* A person, a plugin or the agent edits, adds or removes a skill.
Edit(s) ==
    /\ edits < MaxEdits
    /\ \E k \in Kind :
          /\ k = "gone" => disk[s].kind # "gone"
          /\ disk' = [disk EXCEPT ![s] = IF k = "gone" THEN Gone ELSE [edit |-> edits + 1, kind |-> k]]
    /\ edits' = edits + 1
    /\ UNCHANGED <<scan, served, adapter, routes, watcher, baseline, changed, because, surface>>

(***************************************************************************)
(* Loading.                                                                *)
(***************************************************************************)
HasRequirements(c) == c.kind \in {"pinned", "vulnerable"}

NamesRuntime(c) == c.kind # "foreign"
Imports(c) == c.kind # "broken"

\* What the scanner answers of a copy: its findings, or an error (a timeout, an
\* empty or unparseable report).  The first of snyk and pip-audit that is
\* installed is asked.
RunScanner(c) ==
    {"error"} \cup (IF c.kind = "vulnerable" THEN {"findings"} ELSE {"clean"})

\* The scan refuses a copy only in the mode "block": for its findings, or for
\* want of a scanner if that was asked for.  An error of the scanner refuses
\* nothing.
Refuses(c, answer) ==
    /\ scan.mode = "block" /\ HasRequirements(c)
    /\ IF scan.installed THEN answer = "findings" ELSE ~scan.failOpen

\* The outcome of loading a copy: SKILL.md is looked for, then the scan, then
\* the runtimes in the frontmatter, then the scripts are imported.
LoadSkill(c, answer) ==
    IF c.kind = "gone" THEN "skipped"
    ELSE IF Refuses(c, answer) THEN "refused"
    ELSE IF ~NamesRuntime(c) THEN "skipped"
    ELSE IF ~Imports(c) THEN "raised"
    ELSE "loaded"

(***************************************************************************)
(* The boot.  All skills are loaded in one go: a script that raises fails  *)
(* the setup, and no watcher is started.  The skills of plugins do not     *)
(* take part: the loader looks for them one directory "skills" too deep.   *)
(***************************************************************************)
\* The workspace has children, and they could be fetched.
ChildrenFound == BOOLEAN

CommonSetup ==
    /\ watcher = "boot"
    /\ \E answer \in [Skill -> {"clean", "findings", "error"}] :
          LET outcome == [s \in Skill |-> LoadSkill(disk[s], answer[s])]
          IN  /\ \A s \in Skill : answer[s] \in RunScanner(disk[s])
              /\ IF \E s \in Skill : outcome[s] = "raised"
                 THEN watcher' = "failed" /\ UNCHANGED <<served, routes, because>>
                 ELSE /\ watcher' = "loaded"
                      /\ served' = [s \in Skill |-> IF outcome[s] = "loaded" THEN disk[s] ELSE Gone]
                      /\ because' = [s \in Skill |->
                                       IF outcome[s] = "loaded" THEN "nothing" ELSE "skipped"]
                      /\ routes' \in ChildrenFound
    /\ UNCHANGED <<scan, disk, edits, adapter, baseline, changed, surface>>

(***************************************************************************)
(* The watcher.                                                            *)
(***************************************************************************)
Scanned == [s \in Skill |-> disk[s]]
ChangedSkills == {s \in Skill : disk[s] # baseline[s]}

\* start(): the hashes of now are the baseline, whatever was loaded.
WatcherStarts ==
    /\ watcher = "loaded" /\ watcher' = "idle"
    /\ baseline' = Scanned
    /\ because' = [s \in Skill |->
                      IF because[s] = "nothing" /\ served[s] # disk[s] THEN "raced" ELSE because[s]]
    /\ UNCHANGED <<scan, disk, edits, adapter, served, routes, changed, surface>>

\* _tick() sees a change and lets the writes settle.
TickSees ==
    /\ watcher = "idle" /\ ChangedSkills # {}
    /\ watcher' = "settling"
    /\ UNCHANGED <<scan, disk, edits, adapter, served, routes, baseline, changed, because, surface>>

\* It looks again, and the new hashes are the baseline before any reload.
TickCommits ==
    /\ watcher = "settling"
    /\ baseline' = Scanned /\ changed' = ChangedSkills
    /\ watcher' = IF ChangedSkills = {} THEN "idle" ELSE "reloading"
    /\ UNCHANGED <<scan, disk, edits, adapter, served, routes, because, surface>>

\* What became of the reload of a skill that is served.
Outcome(outcome) ==
    IF outcome # "loaded" THEN "refused" ELSE IF adapter = "nothing" THEN "unkept" ELSE "nothing"

\* Mutant: the new baseline is taken once the skills are loaded again.
ReloadThenCommit(s, outcome) ==
    /\ served' = IF Outcome(outcome) = "nothing" /\ served[s].kind # "gone"
                 THEN [served EXCEPT ![s] = disk[s]] ELSE served
    /\ routes' = (routes /\ ~(outcome = "loaded" /\ adapter = "tools"))
    /\ because' = IF served[s].kind = "gone" THEN because
                  ELSE [because EXCEPT ![s] = Outcome(outcome)]
    /\ baseline' = Scanned

\* on_reload: a skill that is served is replaced, one the boot skipped stays
\* out; an adapter that keeps no list of its skills goes on with the old ones.
\* The tools, where it keeps them, are put together anew, without the one that
\* routes to the team.  A skill that is gone, refused or broken leaves the old
\* copy served.
OnReload(s, outcome) ==
    /\ served' = IF Outcome(outcome) = "nothing" /\ served[s].kind # "gone"
                 THEN [served EXCEPT ![s] = disk[s]] ELSE served
    /\ routes' = (routes /\ ~(outcome = "loaded" /\ adapter = "tools"))
    /\ because' = IF served[s].kind = "gone" THEN because
                  ELSE [because EXCEPT ![s] = Outcome(outcome)]
    /\ UNCHANGED baseline

ReloadSkill(s) ==
    /\ watcher = "reloading" /\ s \in changed
    /\ \E answer \in RunScanner(disk[s]) : OnReload(s, LoadSkill(disk[s], answer))
    /\ changed' = changed \ {s}
    /\ watcher' = IF changed = {s} THEN "idle" ELSE "reloading"
    /\ UNCHANGED <<scan, disk, edits, adapter, surface>>

(***************************************************************************)
(* The surface of the runtime.                                             *)
(***************************************************************************)
\* What a boot makes of the place: a link of somebody else is replaced, a
\* directory of the agent's own is left alone; the entry is added to other
\* entries, but takes the place of what is not a list of them; a configuration
\* that does not parse or is no mapping is left alone.
Linked(place) == IF place = "authored" THEN "authored" ELSE "ours"
Entered(place) == IF place = "authored" THEN "authored" ELSE "ours"

Materialized(runtime, place) ==
    CASE runtime = "linking" -> Linked(place)
      [] runtime = "listing" -> Entered(place)
      [] OTHER -> place

\* The boot goes on whatever comes of it.  A link that cannot be made is a
\* place left empty: the old link is removed first.  A configuration that cannot
\* be written is as it was or cut off.
MaterializeSkills ==
    /\ watcher = "boot" /\ ~surface.shown
    /\ \/ surface' = [surface EXCEPT !.place = Materialized(surface.runtime, @), !.shown = TRUE]
       \/ /\ surface.runtime = "linking" /\ surface.place \in {"nothing", "other"}
          /\ surface' = [surface EXCEPT !.place = "nothing", !.shown = TRUE]
       \/ /\ surface.runtime = "listing" /\ surface.place \in {"nothing", "other", "misshapen"}
          /\ \E place \in {surface.place, "nothing"} :
                surface' = [surface EXCEPT !.place = place, !.shown = TRUE]
    /\ UNCHANGED <<scan, disk, edits, adapter, served, routes, watcher, baseline, changed, because>>

SkillsNext ==
    \/ \E s \in Skill : Edit(s) \/ ReloadSkill(s)
    \/ CommonSetup \/ WatcherStarts \/ TickSees \/ TickCommits

(***************************************************************************)
(* Properties.                                                             *)
(***************************************************************************)
\* While nothing is being reloaded, a skill is served as the watcher last saw
\* it or as it was written since, unless the boot did not load it, it was
\* edited between the load and the watcher's first look, its last reload came
\* to nothing or the adapter keeps no list: then the copy of before stays.
ServedIsSeen ==
    watcher = "idle" =>
        \A s \in Skill : because[s] = "nothing" => served[s].edit >= baseline[s].edit

\* What the agent or somebody else made at the place of the link stays, and so
\* does a configuration, but for entries that are not a list of directories.
AuthoredIsKept ==
    surface.had \in {"authored", "misshapen"} /\ surface.place # surface.had =>
        surface.had = "misshapen" /\ surface.runtime = "listing"

\* The skills of an agent are what the watcher last saw of them, and its own
\* are not overwritten (main.py: _on_skill_reload; skill_loader/watcher.py;
\* skills_render.py).
SkillsAreServed == ServedIsSeen /\ AuthoredIsKept
=============================================================================
