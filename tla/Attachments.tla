------------------------------ MODULE Attachments ------------------------------
(***************************************************************************)
(* The files that come in with a message and go out with a reply           *)
(* (executor_helpers.py): what a turn gets of the files of its message,    *)
(* from the volume, from its own cache or from the platform, which deletes *)
(* an upload once it is acknowledged; and the copies of the files that the *)
(* reply mentions.                                                         *)
(*                                                                         *)
(* The event loop does one turn's files at a time, without an await.  The  *)
(* platform, the agent's own processes on the volume and a crash come in   *)
(* between any two steps.                                                  *)
(***************************************************************************)
EXTENDS FiniteSets, Naturals

CONSTANTS
    Upload,         \* the files people attach, each with a URI
    PartName,       \* the names under which a message may attach one
    Made,           \* the files the agent makes
    MaxTurns,       \* bound on the turns
    MaxVersions     \* bound on the versions of what the agent makes

ASSUME AttachmentsAssumption ==
    /\ IsFiniteSet(Upload) /\ IsFiniteSet(PartName) /\ IsFiniteSet(Made)
    /\ MaxTurns \in Nat /\ MaxVersions \in Nat

VARIABLES
    upload,         \* the form of the URI and the size of each upload
    store,          \* whether the platform has its bytes: kept, expired, acknowledged
    volume,         \* the uploads that are on the volume under their own path
    cache,          \* the copies of the executor, by URI and name: none, torn, whole
    step,           \* where the turn stands
    parts,          \* the files of its message it has not resolved
    part,           \* the one it is resolving
    attached,       \* those it has a path for
    listed,         \* those the model is told of
    inlined,        \* the images it sees
    skipped,        \* those left out because the platform had them no more
    turns,
    made,           \* the version of what the agent made, 0 for no file
    placed,         \* what it makes in the directory of the uploads
    mentioned,      \* the files the reply mentions that are still to be staged
    copies,         \* the version in each copy, by the turn that staged it
    sent,           \* the copies that replies carry
    removed         \* history: the cached copies the agent removed

attachments == <<upload, store, volume, cache, step, parts, part, attached, listed, inlined,
                 skipped, turns, made, placed, mentioned, copies, sent, removed>>

\* Parts of the state that many steps leave alone.
platform == <<upload, store, volume>>
shown == <<listed, inlined, skipped>>
outgoing == <<made, placed, mentioned, copies, sent>>

File == Upload \X PartName

\* "id": named by the id of a pending upload, in either of the two forms of the
\* URI.  "path": a path on the volume.  "odd": neither, or an id that is none.
Forms == {"id", "path", "odd"}
Sizes == {"small", "large", "huge"}

AttachmentsTypeOK ==
    /\ upload \in [Upload -> [form : Forms, size : Sizes, image : BOOLEAN]]
    /\ store \in [Upload -> {"kept", "expired", "acked"}] /\ volume \in SUBSET Upload
    /\ cache \in [File -> {"none", "torn", "whole"}]
    /\ step \in {"idle", "extracting", "writing", "acking", "composing", "replying", "staging",
                "ending"}
    /\ parts \in SUBSET File /\ part \in SUBSET File /\ attached \in SUBSET File
    /\ listed \in SUBSET File /\ inlined \in SUBSET File /\ skipped \in SUBSET File
    /\ turns \in 0..MaxTurns
    /\ made \in [Made -> 0..MaxVersions] /\ placed \in SUBSET Made /\ mentioned \in SUBSET Made
    /\ copies \in [Made \X (1..MaxTurns) -> 0..MaxVersions]
    /\ sent \in SUBSET [file : Made, turn : 1..MaxTurns, version : 1..MaxVersions]
    /\ removed \in SUBSET File

AttachmentsInit ==
    /\ upload \in [Upload -> [form : Forms, size : Sizes, image : BOOLEAN]]
    /\ store = [u \in Upload |-> "kept"]
    /\ volume \in SUBSET {u \in Upload : upload[u].form = "path"}
    /\ cache = [f \in File |-> "none"]
    /\ step = "idle" /\ parts = {} /\ part = {} /\ attached = {}
    /\ listed = {} /\ inlined = {} /\ skipped = {}
    /\ turns = 0
    /\ made = [m \in Made |-> 0] /\ placed \in SUBSET Made /\ mentioned = {}
    /\ copies = [c \in Made \X (1..MaxTurns) |-> 0] /\ sent = {}
    /\ removed = {}

(***************************************************************************)
(* What comes in.                                                          *)
(***************************************************************************)
TurnStarts ==
    /\ step = "idle" /\ turns < MaxTurns /\ turns' = turns + 1
    /\ step' = "extracting"
    /\ parts' \in SUBSET File
    /\ part' = {} /\ attached' = {} /\ listed' = {} /\ inlined' = {} /\ skipped' = {}
    /\ mentioned' = {}
    /\ UNCHANGED <<platform, cache, made, placed, copies, sent, removed>>

\* A path is taken only if it is on the volume.
OnVolume(f) == upload[f[1]].form = "path" /\ f[1] \in volume
Cached(f) == cache[f] # "none"

\* The URI names something to ask the platform for.
Askable(f) == upload[f[1]].form # "odd"

\* A file that is there is taken as it is.
FindsFile(f) ==
    /\ step = "extracting" /\ f \in parts
    /\ OnVolume(f) \/ Cached(f)
    /\ parts' = parts \ {f} /\ attached' = attached \cup {f}
    /\ UNCHANGED <<platform, cache, step, part, shown, turns, outgoing, removed>>

\* The platform is not asked for a file, or does not give it, or gives too much
\* of it: the message goes on without.
SkipsFile(f) ==
    /\ step = "extracting" /\ f \in parts /\ ~OnVolume(f) /\ ~Cached(f)
    /\ parts' = parts \ {f}
    /\ skipped' = IF store[f[1]] = "acked" THEN skipped \cup {f} ELSE skipped
    /\ UNCHANGED <<platform, cache, step, part, attached, listed, inlined, turns, outgoing, removed>>

\* Mutant: the cached file is written in place.
DownloadsInPlace(f) ==
    /\ step = "extracting" /\ f \in parts /\ ~OnVolume(f) /\ ~Cached(f)
    /\ Askable(f) /\ store[f[1]] = "kept" /\ upload[f[1]].size # "huge"
    /\ parts' = parts \ {f} /\ part' = {f} /\ step' = "writing"
    /\ cache' = [cache EXCEPT ![f] = "torn"]
    /\ UNCHANGED <<platform, attached, shown, turns, outgoing, removed>>

Downloads(f) ==
    /\ step = "extracting" /\ f \in parts /\ ~OnVolume(f) /\ ~Cached(f)
    /\ Askable(f) /\ store[f[1]] = "kept" /\ upload[f[1]].size # "huge"
    /\ parts' = parts \ {f} /\ part' = {f} /\ step' = "writing"
    /\ UNCHANGED <<platform, cache, attached, shown, turns, outgoing, removed>>

\* The bytes are written beside the cache and moved into it, and only then is
\* the upload acknowledged.  A write that fails leaves nothing.
WritesCache(f) ==
    /\ step = "writing" /\ part = {f}
    /\ \/ /\ cache' = [cache EXCEPT ![f] = "whole"]
          /\ removed' = removed \ {f}
          /\ IF upload[f[1]].form = "id" THEN step' = "acking" /\ UNCHANGED <<part, attached>>
             ELSE step' = "extracting" /\ part' = {} /\ attached' = attached \cup {f}
       \/ /\ step' = "extracting" /\ part' = {}
          /\ UNCHANGED <<cache, removed, attached>>
    /\ UNCHANGED <<platform, parts, shown, turns, outgoing>>

\* The acknowledgement gets through or not; the file is handed on if it is
\* still there.
Acknowledges(f) ==
    /\ step = "acking" /\ part = {f}
    /\ \/ UNCHANGED store
       \/ store[f[1]] = "kept" /\ store' = [store EXCEPT ![f[1]] = "acked"]
    /\ attached' = IF Cached(f) THEN attached \cup {f} ELSE attached
    /\ part' = {} /\ step' = "extracting"
    /\ UNCHANGED <<upload, volume, cache, parts, shown, turns, outgoing, removed>>

\* The descriptions of the images are awaited, then the content is put
\* together: all files by name, and of the images those that are there and not
\* too large.
ExtractionEnds ==
    /\ step = "extracting" /\ parts = {} /\ step' = "composing"
    /\ UNCHANGED <<platform, cache, parts, part, attached, shown, turns, outgoing, removed>>

Inlines(f) == upload[f[1]].image /\ upload[f[1]].size = "small" /\ (OnVolume(f) \/ Cached(f))

ComposesContent ==
    /\ step = "composing" /\ step' = "replying"
    /\ listed' = attached
    /\ inlined' \in {{}, {f \in attached : Inlines(f)}}     \* inlining may be turned off
    /\ UNCHANGED <<platform, cache, parts, part, attached, skipped, turns, outgoing, removed>>

(***************************************************************************)
(* What goes out.                                                          *)
(***************************************************************************)
\* The place of the copy of a file: its name starts with a number of its own.
StagedAt(m) == <<m, turns>>

Mentions ==
    /\ step = "replying" /\ mentioned = {}
    /\ \E ms \in SUBSET Made : ms # {} /\ mentioned' = ms
    /\ step' = "staging"
    /\ UNCHANGED <<platform, cache, parts, part, attached, shown, turns, made, placed, copies>>
    /\ UNCHANGED <<sent, removed>>

\* A file that is mentioned and there is copied, and goes out as it is from the
\* directory of the uploads; one that is not there is left out.
Stages(m) ==
    /\ step = "staging" /\ m \in mentioned
    /\ mentioned' = mentioned \ {m}
    /\ step' = IF mentioned = {m} THEN "ending" ELSE "staging"
    /\ \/ UNCHANGED <<copies, sent>>
       \/ /\ made[m] # 0 /\ m \notin placed
          /\ copies' = [copies EXCEPT ![StagedAt(m)] = made[m]]
          /\ sent' = sent \cup {[file |-> m, turn |-> StagedAt(m)[2], version |-> made[m]]}
    /\ UNCHANGED <<platform, cache, parts, part, attached, shown, turns, made, placed, removed>>

TurnEnds ==
    /\ step \in {"replying", "ending"} /\ step' = "idle"
    /\ UNCHANGED <<platform, cache, parts, part, attached, shown, turns, outgoing, removed>>

(***************************************************************************)
(* Everybody else.                                                         *)
(***************************************************************************)
Crashes ==
    /\ step # "idle" /\ step' = "idle"
    /\ parts' = {} /\ part' = {} /\ attached' = {} /\ mentioned' = {}
    /\ listed' = {} /\ inlined' = {} /\ skipped' = {}
    /\ UNCHANGED <<platform, cache, turns, made, placed, copies, sent, removed>>

Expires(u) ==
    /\ store[u] = "kept" /\ store' = [store EXCEPT ![u] = "expired"]
    /\ UNCHANGED <<upload, volume, cache, step, parts, part, attached, shown, turns, outgoing>>
    /\ UNCHANGED removed

\* The agent's own processes work on the volume.
AgentRemoves(f) ==
    /\ Cached(f) /\ cache' = [cache EXCEPT ![f] = "none"] /\ removed' = removed \cup {f}
    /\ UNCHANGED <<platform, step, parts, part, attached, shown, turns, outgoing>>

AgentMakes(m) ==
    /\ made[m] < MaxVersions /\ made' = [made EXCEPT ![m] = @ + 1]
    /\ UNCHANGED <<platform, cache, step, parts, part, attached, shown, turns, placed, mentioned>>
    /\ UNCHANGED <<copies, sent, removed>>

AttachmentsNext ==
    \/ TurnStarts \/ ExtractionEnds \/ ComposesContent \/ Mentions \/ TurnEnds \/ Crashes
    \/ \E f \in File :
          FindsFile(f) \/ SkipsFile(f) \/ Downloads(f) \/ WritesCache(f) \/ Acknowledges(f)
              \/ AgentRemoves(f)
    \/ \E u \in Upload : Expires(u)
    \/ \E m \in Made : Stages(m) \/ AgentMakes(m)

(***************************************************************************)
(* Properties.                                                             *)
(***************************************************************************)
\* What a turn is handed is whole, whatever an earlier turn died of.
HandedIsWhole == \A f \in attached : cache[f] # "torn"

\* An upload the platform has deleted on the executor's word is in the cache,
\* unless the agent removed it.
AckedIsHeld ==
    \A u \in Upload :
        store[u] = "acked" =>
            \E n \in PartName : cache[<<u, n>>] = "whole" \/ <<u, n>> \in removed

\* A file the platform has deleted on the executor's word is left out only if
\* its copy was removed or the message calls it by another name.
SkippedIsRenamed ==
    \A f \in skipped :
        \/ f \in removed
        \/ \E n \in PartName \ {f[2]} : Cached(<<f[1], n>>) \/ <<f[1], n>> \in removed

\* What a reply carried is not changed by what a later one carries.
SentIsFixed == \A r \in sent : copies[<<r.file, r.turn>>] = r.version

FilesArrive == HandedIsWhole /\ AckedIsHeld /\ SkippedIsRenamed /\ SentIsFixed
=============================================================================
