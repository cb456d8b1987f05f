----------------------------- MODULE PluginFiles -----------------------------
(***************************************************************************)
(* What a plugin's adaptor writes outside the plugin's own directory       *)
(* (plugins_registry/builtins.py): skill, hook and command files, a block  *)
(* in the agent's memory file, handlers in settings.json and MCP servers   *)
(* in the same file.  Each boot installs the live plugins in the order of  *)
(* their names; an ownership record per plugin tells its own unmodified    *)
(* contributions from what the user or another plugin wrote.               *)
(*                                                                         *)
(* The content of a file is the plugin and revision that wrote it, "user"  *)
(* for anything else, or "torn" for a write that was cut short.            *)
(***************************************************************************)
EXTENDS FiniteSets, Naturals

CONSTANTS
    Contributor,    \* plugin names
    Rank,           \* [Contributor -> Nat], the order of installation
    Privileged,     \* plugins whose failing setup.sh aborts the boot
    Mcp,            \* plugins that ship an MCP server, of audience self
    MaxRev,         \* bound on revisions
    MaxEvents,      \* bound on edits of the user and interrupted installations
    SkillDir,       \* names of skill directories
    Path,           \* files, in a skill directory or under .claude
    DirOf,          \* [Path -> SkillDir \cup {"claude"}]
    Handler,        \* hook handlers of settings.json
    Ships,          \* [Contributor -> [1..MaxRev -> SUBSET Path]]
    Hooks           \* [Contributor -> [1..MaxRev -> SUBSET Handler]]

Rev == 1..MaxRev

ASSUME FilesAssumption ==
    /\ MaxRev \in Nat \ {0} /\ MaxEvents \in Nat
    /\ Rank \in [Contributor -> Nat]
    /\ \A p, q \in Contributor : p # q => Rank[p] # Rank[q]
    /\ {"none", "user", "torn"} \cap Contributor = {}
    /\ Privileged \subseteq Contributor /\ Mcp \subseteq Contributor
    /\ DirOf \in [Path -> SkillDir \cup {"claude"}]
    /\ Ships \in [Contributor -> [Rev -> SUBSET Path]]
    /\ Hooks \in [Contributor -> [Rev -> SUBSET Handler]]

None == [by |-> "none"]
User == [by |-> "user"]
Torn == [by |-> "torn"]
Of(p, r) == [by |-> p, at |-> r]
Written == [by : Contributor, at : Rev]
Text == {None, User, Torn} \cup Written

\* an ownership record; the empty one stands for no record
Contribution == [files : [Path -> {None} \cup Written],
                 block : {None} \cup Written,
                 hooks : SUBSET Handler]
NoContribution == [files |-> [x \in Path |-> None], block |-> None, hooks |-> {}]

VARIABLES
    rev,        \* revision of each plugin in the live tree, 0 for none
    disk,       \* the installed files
    block,      \* each plugin's block in the memory file
    hooks,      \* handlers in settings.json
    servers,    \* plugins whose MCP server settings.json names
    valid,      \* settings.json can be parsed
    ledger,     \* the ownership records
    step,       \* where the installation stands
    who,        \* the plugin being installed
    round,      \* plugins this round still has to install
    remaining,  \* files of the current copy still to be handled
    got,        \* what the record of this installation will say
    calm,       \* history: undisturbed rounds since the last change, plus one
    cut,        \* history: plugins with an installation that left no full record
    events      \* edits and interruptions so far

plugin == <<step, who, round, remaining, got>>
settings == <<hooks, servers, valid>>
filesVars == <<rev, disk, block, settings, ledger, plugin, calm, cut, events>>

FilesTypeOK ==
    /\ rev \in [Contributor -> 0..MaxRev]
    /\ disk \in [Path -> Text] /\ block \in [Contributor -> Text]
    /\ hooks \in SUBSET Handler /\ servers \in SUBSET Contributor /\ valid \in BOOLEAN
    /\ ledger \in [Contributor -> Contribution] /\ got \in Contribution
    /\ step \in {"idle", "next", "memory", "append", "skills", "setup", "claude",
               "merge", "persist"}
    /\ who \in Contributor /\ round \in SUBSET Contributor /\ remaining \in SUBSET Path
    /\ calm \in 0..4 /\ cut \in SUBSET Contributor
    /\ events \in 0..MaxEvents

FilesInit ==
    /\ rev = [p \in Contributor |-> 0]
    /\ disk = [x \in Path |-> None] /\ block = [p \in Contributor |-> None]
    /\ hooks = {} /\ servers = {} /\ valid = TRUE
    /\ ledger = [p \in Contributor |-> NoContribution] /\ got = NoContribution
    /\ step = "idle" /\ who \in {p \in Contributor : \A q \in Contributor : Rank[p] <= Rank[q]}
    /\ round = {} /\ remaining = {}
    /\ calm = 1 /\ cut = {} /\ events = 0

\* A change starts the count of undisturbed rounds again; one in the middle
\* of a round disturbs that round too.
Disturbs == calm' = IF step = "idle" THEN 1 ELSE 0

Happens == events < MaxEvents /\ events' = events + 1

Previous == ledger[who]
Current == Of(who, rev[who])
Shipped == Ships[who][rev[who]]

(***************************************************************************)
(* One round: every live plugin, in order, under the lifecycle lock.       *)
(***************************************************************************)
RoundBegins ==
    /\ step = "idle"
    /\ round' = {p \in Contributor : rev[p] # 0}
    /\ step' = "next"
    /\ UNCHANGED <<rev, disk, block, settings, ledger, who, remaining, got, calm, cut, events>>

\* The MCP servers a plugin's descriptor names.
Servers(p) == Mcp \cap {p}

\* What is left of a memory block, a file and the handlers when the
\* contributions a record names are taken out.
BlockLeft(p, rec) == IF rec.block # None /\ block[p] = rec.block THEN None ELSE block[p]
FileLeft(x, rec) == IF rec.files[x] # None /\ disk[x] = rec.files[x] THEN None ELSE disk[x]
HooksLeft(rec) == hooks \ rec.hooks

\* A block is appended unless the memory file has one with its marker.
Appended(p, text) == IF block[p] = None THEN text ELSE block[p]

\* The adaptor of an MCP plugin first renders its server into settings.json.
\* The renderer adds to what it can parse; a file it cannot is replaced.
RegistersServers(p) ==
    IF Servers(p) = {} THEN UNCHANGED settings
    ELSE /\ servers' = IF valid THEN servers \cup Servers(p) ELSE Servers(p)
         /\ hooks' = IF valid THEN hooks ELSE {}
         /\ valid' = TRUE

Installs(p) ==
    /\ step = "next" /\ p \in round
    /\ \A q \in round : Rank[p] <= Rank[q]
    /\ who' = p /\ round' = round \ {p}
    /\ got' = NoContribution
    /\ RegistersServers(p)
    /\ step' = "memory"
    /\ UNCHANGED <<rev, disk, block, ledger, remaining, calm, cut, events>>

\* The block the record names is removed where it is still as it was written.
RemovesBlock ==
    /\ step = "memory"
    /\ block' = [block EXCEPT ![who] = BlockLeft(who, Previous)]
    /\ step' = "append"
    /\ UNCHANGED <<rev, disk, settings, ledger, who, round, remaining, got, calm, cut, events>>

\* A skill directory that exists and holds nothing the record names is someone
\* else's: the plugin installs nothing there.
Exists(d) == \E x \in Path : DirOf[x] = d /\ disk[x] # None
Refused(d) == Exists(d) /\ \A x \in Path : DirOf[x] = d => Previous.files[x] = None

Scope(dirs) == {x \in Path : DirOf[x] \in dirs /\ (x \in Shipped \/ Previous.files[x] # None)}

\* Only a block that was appended is owned.
AppendsBlock ==
    /\ step = "append"
    /\ block' = [block EXCEPT ![who] = Appended(who, Current)]
    /\ got' = [got EXCEPT !.block = IF block[who] = None THEN Current ELSE None]
    /\ remaining' = Scope({d \in SkillDir : ~Refused(d)})
    /\ step' = "skills"
    /\ UNCHANGED <<rev, disk, settings, ledger, who, round, calm, cut, events>>

\* Mutant: any file the record names is replaced, whatever it holds now.
MayWriteRecorded(x) == disk[x] = None \/ Previous.files[x] # None

\* A file may be written or removed where there is none, or where its content
\* is the one the record remembers.
MayWrite(x) == disk[x] = None \/ (Previous.files[x] # None /\ disk[x] = Previous.files[x])

Copies(x) ==
    /\ x \in Shipped /\ MayWrite(x)
    /\ disk' = [disk EXCEPT ![x] = Current]
    /\ got' = [got EXCEPT !.files[x] = Current]

\* Mutant: what is no longer shipped stays.
RemovesNothing(x) ==
    /\ x \notin Shipped /\ UNCHANGED <<disk, got>>

Removes(x) ==
    /\ x \notin Shipped /\ MayWrite(x)
    /\ disk' = [disk EXCEPT ![x] = None]
    /\ UNCHANGED got

Preserves(x) == ~MayWrite(x) /\ UNCHANGED <<disk, got>>

Handles(x) ==
    /\ step \in {"skills", "claude"} /\ x \in remaining
    /\ Copies(x) \/ Removes(x) \/ Preserves(x)
    /\ remaining' = remaining \ {x}
    /\ UNCHANGED <<rev, block, settings, ledger, step, who, round, calm, cut, events>>

SkillsDone ==
    /\ step = "skills" /\ remaining = {}
    /\ step' = "setup"
    /\ UNCHANGED <<rev, disk, block, settings, ledger, who, round, remaining, got, calm, cut, events>>

\* setup.sh: a failure or timeout is an entry of the report ...
SetupEnds(ok) ==
    /\ step = "setup" /\ (ok \/ who \notin Privileged)
    /\ remaining' = Scope({"claude"})
    /\ step' = "claude"
    /\ UNCHANGED <<rev, disk, block, settings, ledger, who, round, got, calm, cut, events>>

\* ... except for the privileged plugin, which records what it has installed
\* so far, without the .claude files and the settings it owned, and aborts
\* the boot.
PrivilegedAborts ==
    /\ Happens
    /\ step = "setup" /\ who \in Privileged
    /\ ledger' = [ledger EXCEPT ![who] = got]
    /\ cut' = cut \cup {who}
    /\ step' = "idle" /\ calm' = 1
    /\ round' = {} /\ remaining' = {} /\ got' = NoContribution
    /\ UNCHANGED <<rev, disk, block, settings, who>>

ClaudeDone ==
    /\ step = "claude" /\ remaining = {}
    /\ step' = "merge"
    /\ UNCHANGED <<rev, disk, block, settings, ledger, who, round, remaining, got, calm, cut, events>>

\* Mutant: the handlers of the last installation are taken out, and the ones
\* its record names are not put in again.
MergeWithoutRenewal ==
    /\ hooks' = HooksLeft(Previous) \cup (Hooks[who][rev[who]] \ Previous.hooks)
    /\ got' = [got EXCEPT !.hooks = Hooks[who][rev[who]]]

\* The handlers of the last installation are taken out, the ones this
\* revision contributes put in, and only those that were not there are owned.
Merge ==
    LET kept == HooksLeft(Previous)
    IN  /\ hooks' = kept \cup Hooks[who][rev[who]]
        /\ got' = [got EXCEPT !.hooks = Hooks[who][rev[who]] \ kept]

Merges ==
    /\ step = "merge"
    /\ IF valid THEN Merge
       ELSE got' = [got EXCEPT !.hooks = Previous.hooks] /\ UNCHANGED hooks
    /\ step' = "persist"
    /\ UNCHANGED <<rev, disk, block, servers, valid, ledger, who, round, remaining, calm, cut, events>>

Persists ==
    /\ step = "persist"
    /\ ledger' = [ledger EXCEPT ![who] = got]
    /\ step' = "next"
    /\ got' = NoContribution
    /\ UNCHANGED <<rev, disk, block, settings, who, round, remaining, calm, cut, events>>

\* An error ends this plugin's installation without a record; the next goes
\* on, unless it is the privileged plugin, which aborts the boot.
Fails ==
    /\ Happens
    /\ step \notin {"idle", "next"}
    /\ cut' = cut \cup {who}
    /\ remaining' = {} /\ got' = NoContribution
    /\ IF who \in Privileged THEN step' = "idle" /\ calm' = 1 /\ round' = {}
       ELSE step' = "next" /\ calm' = 0 /\ UNCHANGED round
    /\ UNCHANGED <<rev, disk, block, settings, ledger, who>>

RoundEnds ==
    /\ step = "next" /\ round = {}
    /\ step' = "idle"
    /\ calm' = IF calm < 4 THEN calm + 1 ELSE calm
    /\ UNCHANGED <<rev, disk, block, settings, ledger, who, round, remaining, got, cut, events>>

\* The process is killed.  An append to the memory file and a copy are not
\* atomic; the record and settings.json are replaced by a rename.
InstallKilled ==
    /\ Happens
    /\ step # "idle"
    /\ step' = "idle" /\ calm' = 1
    /\ round' = {} /\ remaining' = {} /\ got' = NoContribution
    /\ cut' = IF step = "next" THEN cut ELSE cut \cup {who}
    /\ \/ UNCHANGED <<disk, block>>
       \/ step = "append" /\ block[who] = None
             /\ block' = [block EXCEPT ![who] = Torn] /\ UNCHANGED disk
       \/ \E x \in remaining :
             x \in Shipped /\ MayWrite(x) /\ disk' = [disk EXCEPT ![x] = Torn] /\ UNCHANGED block
    /\ UNCHANGED <<rev, settings, ledger, who>>

(***************************************************************************)
(* Removal, and what others do to the same files.                          *)
(***************************************************************************)

\* Takes out the contributions that still match the record, and the record.
\* Nothing but the tests asks an adaptor for it so far (builtins.py:1397-1407).
Uninstalls(p) ==
    /\ step = "idle" /\ ledger[p] # NoContribution
    /\ block' = [block EXCEPT ![p] = BlockLeft(p, ledger[p])]
    /\ disk' = [x \in Path |-> FileLeft(x, ledger[p])]
    /\ hooks' = IF valid THEN HooksLeft(ledger[p]) ELSE hooks
    /\ servers' = IF valid THEN servers \ Servers(p) ELSE servers
    /\ ledger' = [ledger EXCEPT ![p] = NoContribution]
    /\ rev' = [rev EXCEPT ![p] = 0]
    /\ Disturbs
    /\ UNCHANGED <<valid, plugin, cut, events>>

\* The boot installation brought another revision, or none.
Arrives(p, r) ==
    /\ step = "idle" /\ r # rev[p]
    /\ rev' = [rev EXCEPT ![p] = r]
    /\ Disturbs
    /\ UNCHANGED <<disk, block, settings, ledger, plugin, cut, events>>

UserWrites(x) ==
    /\ Happens
    /\ disk[x] # User
    /\ disk' = [disk EXCEPT ![x] = User]
    /\ Disturbs
    /\ UNCHANGED <<rev, block, settings, ledger, plugin, cut>>

UserDeletes(x) ==
    /\ Happens
    /\ disk[x] # None
    /\ disk' = [disk EXCEPT ![x] = None]
    /\ Disturbs
    /\ UNCHANGED <<rev, block, settings, ledger, plugin, cut>>

UserEditsBlock(p) ==
    /\ Happens
    /\ block[p] \notin {None, User}
    /\ block' = [block EXCEPT ![p] = User]
    /\ Disturbs
    /\ UNCHANGED <<rev, disk, settings, ledger, plugin, cut>>

\* The user adds a handler, or leaves settings.json malformed.
UserEditsSettings ==
    /\ Happens
    /\ valid
    /\ \/ \E h \in Handler \ hooks : hooks' = hooks \cup {h} /\ valid' = TRUE
       \/ valid' = FALSE /\ UNCHANGED hooks
    /\ Disturbs
    /\ UNCHANGED <<rev, disk, block, servers, ledger, plugin, cut>>

FilesNext ==
    \/ RoundBegins \/ RemovesBlock \/ AppendsBlock \/ SkillsDone
    \/ PrivilegedAborts \/ ClaudeDone \/ Merges \/ Persists \/ Fails \/ RoundEnds \/ InstallKilled
    \/ \E ok \in BOOLEAN : SetupEnds(ok)
    \/ \E p \in Contributor : \/ Installs(p) \/ Uninstalls(p) \/ UserEditsBlock(p)
                         \/ \E r \in 0..MaxRev : Arrives(p, r)
    \/ \E x \in Path : Handles(x) \/ UserWrites(x) \/ UserDeletes(x)
    \/ UserEditsSettings

(***************************************************************************)
(* Properties.                                                             *)
(***************************************************************************)

\* An installation or a removal touches only what its own plugin wrote: a file
\* of the user, of another plugin or of unknown origin changes by the user's
\* hand alone (builtins.py:935-968).
OnlyItsOwn ==
    [][ \A x \in Path : disk[x] # None /\ disk'[x] # disk[x] =>
            \/ UserWrites(x) \/ UserDeletes(x)
            \/ step # "idle" /\ disk[x].by = who
            \/ step = "idle" /\ \E p \in Contributor : disk[x].by = p /\ Uninstalls(p) ]_filesVars

\* Unless an installation of the plugin was once cut short, what it leaves in
\* place after a round is of the revision that is live: no file of an older
\* one, no block with older rules (builtins.py:598-798).
StaleHasCause ==
    step = "idle" /\ calm > 1 =>
        \A p \in Contributor \ cut : rev[p] # 0 =>
            /\ \A x \in Path : disk[x].by = p => disk[x] = Of(p, rev[p])
            /\ block[p].by = p => block[p] = Of(p, rev[p])

\* Three undisturbed rounds after the last change every handler of every live
\* plugin is in settings.json.  One is not enough: a plugin that is installed
\* later may own, and take out, a handler an earlier one ships too.  Nor are two
\* where the file was malformed when the first began: a plugin installed before
\* the file is rendered anew keeps its old record, and takes out in the second
\* what it once owned (builtins.py:1014-1048).
HooksSettle ==
    step = "idle" /\ calm = 4 /\ valid =>
        \A p \in Contributor : rev[p] # 0 => Hooks[p][rev[p]] \subseteq hooks

\* After a removal nothing the plugin wrote is left, unless an installation of
\* it was once cut short (builtins.py:808-850).
CleanUninstall ==
    [][ \A p \in Contributor \ cut :
            step = "idle" /\ ledger[p] # NoContribution /\ ledger'[p] = NoContribution =>
            /\ \A x \in Path : disk'[x].by # p
            /\ block'[p].by # p ]_filesVars

\* A plugin has what it wrote, and nothing else, for its own.
OwnsItsFiles == OnlyItsOwn /\ CleanUninstall
=============================================================================
