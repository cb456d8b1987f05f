---------------------------- MODULE PluginInstall ----------------------------
(***************************************************************************)
(* The boot installation of plugins (plugin_sources.py) and the raw drop   *)
(* of plugins that have no adaptor (plugins_registry/raw_drop.py).  A boot *)
(* runs the installation twice: a prepare pass, after which the gateway    *)
(* spawns MCP servers out of the plugins directory, and the pass of the    *)
(* serving process.  Each pass builds a staging tree and swaps it with the *)
(* live directory by two renames, unless the two already agree.            *)
(*                                                                         *)
(* A plugin tree is known by the upstream revision it was fetched at;      *)
(* "shared" is the content of the legacy shared directory, "torn" a tree   *)
(* whose copy was cut short, and "none" no tree.                           *)
(***************************************************************************)
EXTENDS FiniteSets, Naturals

CONSTANTS
    Name,       \* plugin names
    Shared,     \* names of the legacy shared directory that have no adaptor
    Pinned,     \* sources declared at a commit id
    Moving,     \* sources that move upstream (a bound)
    MaxUpstream,     \* bound on upstream revisions
    Bad         \* <<name, revision>> pairs whose plugin.yaml violates the schema

ASSUME PluginAssumption ==
    /\ Shared \subseteq Name
    /\ Pinned \subseteq Name
    /\ Moving \subseteq Name
    /\ MaxUpstream \in Nat \ {0}
    /\ Bad \subseteq Name \X (1..MaxUpstream)

Revision == 1..MaxUpstream
TreeContent == [kind : {"none", "shared", "torn"}] \cup [kind : {"rev"}, at : Revision]
NoTree == [kind |-> "none"]
SharedTree == [kind |-> "shared"]
TornTree == [kind |-> "torn"]
AtRevision(r) == [kind |-> "rev", at |-> r]
Empty == [n \in Name |-> NoTree]

\* the marker file that names what the last promotion put in the live tree
NoMarker == [known |-> FALSE]
Marked(S) == [known |-> TRUE, names |-> S]
Marker == {NoMarker} \cup {Marked(S) : S \in SUBSET Name}

VARIABLES
    up,         \* revision each source has upstream
    signal,     \* MOLECULE_DECLARED_PLUGINS is not empty in this boot
    declared,   \* the names of the sources it parses to, which may be none
    twice,      \* two of its sources share a name
    live,       \* the plugins directory
    promoted,   \* .molecule-declared.json inside it
    pyc,        \* plugins of the live tree whose servers wrote bytecode
    stage,      \* where this boot's current pass stands
    pass,       \* 1: the prepare pass, 2: the pass of the serving process
    unfetched,  \* sources this pass has not fetched yet
    failures,   \* sources this pass could not stage
    staging,    \* the tree being built
    swapped,    \* the report says that the staged tree is live
    spawned,    \* MCP servers: none, from the live tree, or from a replaced one
    kept,       \* history: the live tree as this pass found it
    clean       \* history: the prepare pass promoted every source

boot == <<signal, declared, twice>>
install == <<unfetched, failures, staging, swapped>>
history == <<kept, clean>>
installVars == <<up, signal, declared, twice, live, promoted, pyc, stage, pass, unfetched, failures, staging,
          swapped, spawned, kept, clean>>

Dirs(tree) == {n \in Name : tree[n] # NoTree}

\* sources staged so far (report.installed)
Installed == (declared \ unfetched) \ failures

InstallTypeOK ==
    /\ up \in [Name -> Revision]
    /\ declared \in SUBSET Name /\ pyc \in SUBSET Name
    /\ live \in [Name -> TreeContent] /\ staging \in [Name -> TreeContent]
    /\ kept \in [Name -> TreeContent]
    /\ promoted \in Marker
    /\ stage \in {"down", "fetch", "compare", "swap", "moved", "drop", "idle"}
    /\ pass \in {1, 2}
    /\ unfetched \in SUBSET declared /\ failures \in SUBSET declared
    /\ signal \in BOOLEAN /\ twice \in BOOLEAN /\ swapped \in BOOLEAN /\ clean \in BOOLEAN
    /\ spawned \in {"none", "current", "orphaned"}

InstallInit ==
    /\ up = [n \in Name |-> 1]
    /\ signal = FALSE /\ declared = {} /\ twice = FALSE /\ pyc = {}
    /\ live = Empty /\ staging = Empty /\ kept = Empty
    /\ promoted = NoMarker
    /\ stage = "down" /\ pass = 1
    /\ unfetched = {} /\ failures = {} /\ swapped = FALSE
    /\ spawned = "none" /\ clean = FALSE

(***************************************************************************)
(* One pass of install_declared_plugins.                                   *)
(***************************************************************************)

\* A pass begins.  Without the signal it is a no-op, two sources of one
\* directory name reject the whole set before anything is fetched, and there
\* may be no room for a staging directory: all three leave the live tree alone
\* and go on to the adaptors.  A signal none of whose sources can be parsed is
\* a signal still.
Start(asked, D, collide, room) ==
    /\ D # {} => asked
    /\ collide => D # {}
    /\ room \/ (asked /\ ~collide)
    /\ signal' = asked /\ declared' = D /\ twice' = collide
    /\ kept' = live
    /\ staging' = Empty /\ swapped' = FALSE
    /\ IF asked /\ ~collide /\ room
         THEN stage' = "fetch" /\ unfetched' = D /\ failures' = {}
         ELSE stage' = "drop" /\ unfetched' = {} /\ failures' = D

\* A boot whose prepare step is missing begins with the serving process.
BootBegins ==
    /\ stage = "down"
    /\ \E D \in SUBSET Name, asked, collide, room \in BOOLEAN : Start(asked, D, collide, room)
    /\ pass' \in {1, 2}
    /\ UNCHANGED <<up, live, promoted, pyc, spawned, clean>>

\* A pinned commit is fetched by its id and, where the remote refuses that,
\* out of a full clone; a named ref has the one shallow clone.  `direct` and
\* `clone` say which of the two the remote serves, `subpath` whether the
\* requested directory is in the repository.
Fetched(n, direct, clone, subpath) ==
    (direct \/ (n \in Pinned /\ clone)) /\ subpath

\* Mutant: a rejected plugin and a copy cut short stay in the staging tree.
FetchLeavingRejected(n, direct, clone, subpath, copied) ==
    LET fetched == Fetched(n, direct, clone, subpath)
    IN  /\ stage = "fetch" /\ n \in unfetched
        /\ unfetched' = unfetched \ {n}
        /\ failures' = IF fetched /\ copied /\ <<n, up[n]>> \notin Bad
                       THEN failures ELSE failures \cup {n}
        /\ staging' = [staging EXCEPT ![n] =
                          IF ~fetched THEN NoTree ELSE IF copied THEN AtRevision(up[n]) ELSE TornTree]
        /\ UNCHANGED <<up, boot, live, promoted, pyc, stage, pass, swapped, spawned,
                       history>>

\* One source is fetched, copied into staging and its manifest checked.  A
\* failure at any of the three fails this source alone and leaves nothing of
\* it in staging: a partial copy is discarded, a rejected tree removed.  What
\* comes after a failure is not tried.
FetchSource(n, direct, clone, subpath, copied) ==
    LET accepted == /\ Fetched(n, direct, clone, subpath)
                    /\ copied
                    /\ <<n, up[n]>> \notin Bad
    IN  /\ stage = "fetch" /\ n \in unfetched
        /\ clone => n \in Pinned /\ ~direct
        /\ subpath => direct \/ clone
        /\ copied => subpath
        /\ unfetched' = unfetched \ {n}
        /\ failures' = IF accepted THEN failures ELSE failures \cup {n}
        /\ staging' = [staging EXCEPT ![n] = IF accepted THEN AtRevision(up[n]) ELSE NoTree]
        /\ UNCHANGED <<up, boot, live, promoted, pyc, stage, pass, swapped, spawned,
                       history>>

\* Every source there was failed: nothing is promoted.
NothingStaged ==
    /\ stage = "fetch" /\ unfetched = {} /\ failures # {} /\ Installed = {}
    /\ stage' = "drop"
    /\ UNCHANGED <<up, boot, live, promoted, pyc, pass, install, spawned, history>>

\* Mutant: a partial failure carries nothing forward.
CarriedNone == {}

\* The live directories no staged source replaces.
Carried == Dirs(live) \ Dirs(staging)

\* After a partial failure they are carried into staging ...
CarryForward ==
    /\ stage = "fetch" /\ unfetched = {} /\ (failures = {} \/ Installed # {})
    /\ staging' = IF failures = {} THEN staging
                  ELSE [n \in Name |-> IF n \in Carried THEN live[n] ELSE staging[n]]
    /\ stage' = "compare"
    /\ UNCHANGED <<up, boot, live, promoted, pyc, pass, unfetched, failures, swapped,
                   spawned, history>>

\* ... and one that cannot be copied aborts the promotion.
CarryAborts ==
    /\ stage = "fetch" /\ unfetched = {} /\ Installed # {}
    /\ failures # {} /\ Carried # {}
    /\ stage' = "drop"
    /\ UNCHANGED <<up, boot, live, promoted, pyc, pass, install, spawned, history>>

\* Live directories that staging does not manage and that the last promotion
\* did: they are no longer declared.  Without a marker every one counts.
LiveOnly == Dirs(live) \ Dirs(staging)

DeDeclared == IF promoted.known THEN LiveOnly \cap promoted.names ELSE LiveOnly

Content(tree, bytecode) == [tree |-> tree, bytecode |-> bytecode]

\* Bytecode that only the live tree has is left out of the comparison.
DropBytecode(c) == [c EXCEPT !.bytecode = FALSE]

Same(n) == DropBytecode(Content(live[n], n \in pyc)) = Content(staging[n], FALSE)

Matches == DeDeclared = {} /\ \A n \in Dirs(staging) : Same(n)

\* Mutant: two trees that could not be read are equal.
CompareTrusting(readable) ==
    /\ stage = "compare"
    /\ IF readable => Matches
         THEN swapped' = TRUE /\ stage' = "drop" /\ staging' = Empty
         ELSE stage' = "swap" /\ UNCHANGED <<swapped, staging>>
    /\ UNCHANGED <<up, boot, live, promoted, pyc, pass, unfetched, failures, spawned,
                   history>>

\* The swap is skipped only where both trees were read and agree; the report
\* still says that the staged tree is live.
Compare(readable) ==
    /\ stage = "compare"
    /\ IF readable /\ Matches
         THEN swapped' = TRUE /\ stage' = "drop" /\ staging' = Empty
         ELSE stage' = "swap" /\ UNCHANGED <<swapped, staging>>
    /\ UNCHANGED <<up, boot, live, promoted, pyc, pass, unfetched, failures, spawned,
                   history>>

\* First rename: the live tree moves aside.  While stage = "moved" the plugins
\* directory does not exist and `live` is the tree that was moved.
MoveAside ==
    /\ stage = "swap"
    /\ stage' = "moved"
    /\ UNCHANGED <<up, boot, live, promoted, pyc, pass, install, spawned, history>>

\* Second rename: staging becomes the live tree, with the marker that names
\* every directory staging managed, if that could be written.  A server that
\* ran from the old tree keeps executing it.
MoveIn(written) ==
    /\ stage = "moved"
    /\ live' = staging
    /\ promoted' = IF written THEN Marked(Dirs(staging)) ELSE NoMarker
    /\ pyc' = {}
    /\ swapped' = TRUE
    /\ spawned' = IF spawned = "current" THEN "orphaned" ELSE spawned
    /\ staging' = Empty
    /\ stage' = "drop"
    /\ UNCHANGED <<up, boot, pass, unfetched, failures, history>>

\* A rename fails: the first leaves the tree in place, the second restores it,
\* or cannot.
Lose == live' = Empty /\ promoted' = NoMarker /\ pyc' = {} /\ kept' = Empty

MoveFails(restored) ==
    /\ stage \in {"swap", "moved"}
    /\ IF stage = "moved" /\ ~restored THEN Lose
       ELSE UNCHANGED <<live, promoted, pyc, kept>>
    /\ staging' = Empty
    /\ stage' = "drop"
    /\ UNCHANGED <<up, boot, pass, unfetched, failures, swapped, spawned, clean>>

(***************************************************************************)
(* The adaptors run after each pass.  A plugin of the shared directory     *)
(* without one is copied into the live tree, unless it is there already.   *)
(***************************************************************************)
\* A copy that raises, or that a crash cuts short, leaves half a tree, and a
\* name that is present is never copied again.
RawDrop(n, whole) ==
    /\ stage = "drop" /\ n \in Shared /\ live[n] = NoTree
    /\ live' = [live EXCEPT ![n] = IF whole THEN SharedTree ELSE TornTree]
    /\ UNCHANGED <<up, boot, promoted, pyc, stage, pass, install, spawned, history>>

\* The prepare pass is over: the gateway spawns the MCP servers, and the
\* serving process starts its own pass over the same declared set.
Serve ==
    /\ stage = "drop" /\ pass = 1
    /\ \A n \in Shared : live[n] # NoTree
    /\ pass' = 2
    /\ spawned' = "current"
    /\ clean' = (swapped /\ failures = {})
    /\ \E room \in BOOLEAN : Start(signal, declared, twice, room)
    /\ UNCHANGED <<up, live, promoted, pyc>>

Settle ==
    /\ stage = "drop" /\ pass = 2
    /\ \A n \in Shared : live[n] # NoTree
    /\ stage' = "idle"
    /\ UNCHANGED <<up, boot, live, promoted, pyc, pass, install, spawned, history>>

(***************************************************************************)
(* The world around it.                                                    *)
(***************************************************************************)

\* A server imports a module out of the live tree, which writes bytecode.
Import(n) ==
    /\ spawned = "current" /\ stage # "moved"
    /\ live[n] # NoTree /\ n \notin pyc
    /\ pyc' = pyc \cup {n}
    /\ UNCHANGED <<up, boot, live, promoted, stage, pass, install, spawned, history>>

\* A source moves upstream; a pin moves only with the declared set.
Publish(n) ==
    /\ n \in Moving /\ up[n] < MaxUpstream
    /\ n \in Pinned => stage = "down"
    /\ up' = [up EXCEPT ![n] = @ + 1]
    /\ UNCHANGED <<boot, live, promoted, pyc, stage, pass, install, spawned, history>>

\* The container stops, at any point.  A staging tree is abandoned; a live
\* tree that was moved aside is never moved back.  The next boot is given its
\* declared set anew.
Crash ==
    /\ stage # "down"
    /\ IF stage = "moved" THEN Lose ELSE kept' = Empty /\ UNCHANGED <<live, promoted, pyc>>
    /\ stage' = "down"
    /\ staging' = Empty /\ unfetched' = {} /\ failures' = {} /\ swapped' = FALSE
    /\ spawned' = "none" /\ pass' = 1 /\ clean' = FALSE
    /\ signal' = FALSE /\ declared' = {} /\ twice' = FALSE
    /\ UNCHANGED up

InstallNext ==
    \/ BootBegins \/ NothingStaged \/ CarryForward \/ CarryAborts
    \/ \E n \in Name, direct, clone, subpath, copied \in BOOLEAN :
           FetchSource(n, direct, clone, subpath, copied)
    \/ \E n \in Name, whole \in BOOLEAN : RawDrop(n, whole)
    \/ \E n \in Name : Import(n) \/ Publish(n)
    \/ \E readable \in BOOLEAN : Compare(readable)
    \/ MoveAside
    \/ \E written \in BOOLEAN : MoveIn(written)
    \/ \E restored \in BOOLEAN : MoveFails(restored)
    \/ Serve \/ Settle \/ Crash

(***************************************************************************)
(* Properties.                                                             *)
(***************************************************************************)

\* A pass never deletes a plugin that is still declared: whatever fails among
\* its sources, a declared plugin that was live when the pass began is live
\* when it ends, unless the directory could not be put back after a failed
\* second rename (plugin_sources.py:1386-1415).
KeepsInstalled ==
    stage \in {"drop", "idle"} =>
        \A n \in declared : kept[n] # NoTree => live[n] # NoTree

\* Only a raw drop can leave half a tree in the plugins directory, and nothing
\* the manifest gate rejected is ever promoted (plugin_sources.py:1287-1337).
OnlyWholeTrees ==
    \A n \in Name : /\ live[n] = TornTree => n \in Shared
                    /\ \A r \in Revision : <<n, r>> \in Bad => live[n] # AtRevision(r)

\* What the report claims is what the directory holds: when a pass says it
\* promoted, every source it installed is live at the revision it fetched,
\* whether the trees were swapped or found equal (plugin_sources.py:1505-1516).
ReportIsTrue ==
    [][ stage' = "drop" /\ stage \in {"compare", "moved"} /\ swapped' =>
            \A n \in Installed : live'[n] = staging[n] ]_installVars

\* A plugin no longer declared is gone after a pass in which every source
\* succeeded; what stays beside the declared set was never fetched
\* (plugin_sources.py:1474-1501).
DeDeclaredGoes ==
    stage = "drop" /\ swapped /\ failures = {} =>
        \A n \in Name \ declared : live[n].kind # "rev"

\* After a prepare pass that promoted every source, the second pass replaces
\* the tree under the servers only where a source moved upstream: neither the
\* bytecode they write, nor a plugin dropped beside the declared ones, nor a
\* source that fails now makes it swap.  Only for want of a marker does a
\* plugin that was dropped there count (plugin_sources.py:1423-1516, 629-630).
NoNeedlessSwap ==
    [][ clean /\ Compare(TRUE) /\ stage' = "swap" =>
            \/ \E n \in Dirs(staging) : staging[n] # kept[n]
            \/ ~promoted.known /\ LiveOnly \cap Shared # {} ]_installVars

\* The plugins directory holds whole trees of declared plugins.
TreeIsDeclared == OnlyWholeTrees /\ DeDeclaredGoes

\* What a pass did to it has a reason and is what it says.
SwapIsJust == ReportIsTrue /\ NoNeedlessSwap
=============================================================================
