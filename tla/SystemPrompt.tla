----------------------------- MODULE SystemPrompt -----------------------------
(***************************************************************************)
(* What the system prompt says of the agent's role and of what it noted    *)
(* (prompt.py: build_system_prompt), and the copies of the file it reads   *)
(* (mailbox_dir.py: migrate_legacy_state; adapter_base.py:                 *)
(* append_to_memory_hook; agents_md.py; persona_render.py).                *)
(*                                                                         *)
(* One memory file stands for MEMORY.md, USER.md, CLAUDE.md, AGENTS.md and *)
(* SOUL.md.  If it is declared in "prompt_files" its copy in the           *)
(* configuration directory, rendered anew by every provision, is the role. *)
(* The copy in the mailbox is the memory, and began as a photocopy of the  *)
(* role.  A text is the version of the role it starts with, whether the    *)
(* last section of that version follows, the notes appended to it, and     *)
(* whether a generated card took its place: a version without its last     *)
(* section is a prefix of the one with it.                                 *)
(***************************************************************************)
EXTENDS Naturals

CONSTANTS
    MaxRoles,       \* bound on the versions of the role
    MaxNotes        \* bound on the notes

ASSUME PromptAssumption == MaxRoles \in Nat \ {0} /\ MaxNotes \in Nat

VARIABLES
    files,          \* the files of prompt_files: the memory file, the default one
    nature,         \* the memory file: one hooks append to, the one that is generated as well,
                    \* one no writer is listed for
    up,             \* the runtime is up
    prefers,        \* the kernel is on in this boot
    writable,       \* the workspace volume can be written in this boot
    configs,        \* the copy in the configuration directory
    spare,          \* the copy of a boot that could not write the volume
    durable,        \* the copy on the volume
    seed,           \* the text recorded as the seed of the copy on the volume
    marked,         \* the marker of the migration
    persona,        \* system-prompt.md is there
    notes,          \* the notes made
    home,           \* history: the copy each note is in
    unrecorded      \* history: a copy was made whose seed was not recorded, or its record was lost

prompt == <<files, nature, up, prefers, writable, configs, spare, durable, seed, marked, persona,
            notes, home, unrecorded>>

MemoryCopies == {"configs", "spare", "durable"}
Texts == [there : BOOLEAN, role : 0..MaxRoles, tail : BOOLEAN, notes : SUBSET (1..MaxNotes), card : BOOLEAN]
NoFile == [there |-> FALSE, role |-> 0, tail |-> FALSE, notes |-> {}, card |-> FALSE]
Nothing == [NoFile EXCEPT !.there = TRUE]
Versions == {t \in Texts : t.there /\ t.role # 0 /\ t.notes = {} /\ ~t.card}
IsEmpty(t) == t.role = 0 /\ ~t.tail /\ t.notes = {} /\ ~t.card

PromptTypeOK ==
    /\ files \in SUBSET {"memory", "default"} /\ nature \in {"appended", "generated", "unlisted"}
    /\ up \in BOOLEAN /\ prefers \in BOOLEAN /\ writable \in BOOLEAN
    /\ configs \in Texts /\ spare \in Texts /\ durable \in Texts
    /\ seed \in Texts /\ marked \in BOOLEAN
    /\ persona \in BOOLEAN
    /\ notes \in 0..MaxNotes /\ home \in [1..MaxNotes -> MemoryCopies \cup {"seeded", "gone"}]
    /\ unrecorded \in BOOLEAN

\* A fresh workspace before its first boot.
PromptInit ==
    /\ files \in SUBSET {"memory", "default"} /\ nature \in {"appended", "generated", "unlisted"}
    /\ up = FALSE /\ prefers = TRUE /\ writable = TRUE
    /\ configs \in {NoFile, Nothing} \cup {v \in Versions : v.role = 1}
    /\ spare = NoFile /\ durable = NoFile
    /\ seed = NoFile /\ marked = FALSE
    /\ persona \in BOOLEAN
    /\ notes = 0 /\ home = [n \in 1..MaxNotes |-> "gone"] /\ unrecorded = FALSE

\* memory_dir(): where the memory is read and written in this boot.
MemorySource == IF ~prefers THEN "configs" ELSE IF writable THEN "durable" ELSE "spare"
Copy(place) == CASE place = "configs" -> configs [] place = "spare" -> spare [] OTHER -> durable

(***************************************************************************)
(* The writers.                                                            *)
(***************************************************************************)
\* The platform renders the files anew, or they do not arrive.
Provision ==
    /\ ~up
    /\ \E t \in {NoFile, Nothing} \cup Versions :
          /\ t.role \in {0, configs.role, configs.role + 1} /\ configs' = t
    /\ persona' \in BOOLEAN
    /\ home' = [n \in 1..MaxNotes |-> IF home[n] = "configs" THEN "gone" ELSE home[n]]
    /\ UNCHANGED <<files, nature, up, prefers, writable, spare, durable, seed, marked, notes, unrecorded>>

\* append_to_memory_hook: a note goes to the end of the copy of this boot.  The
\* caller names the file, and it may be one no writer is listed for.
AppendToMemory ==
    /\ up /\ notes < MaxNotes
    /\ notes' = notes + 1
    /\ home' = [home EXCEPT ![notes + 1] = MemorySource]
    /\ LET with(t) == [t EXCEPT !.there = TRUE, !.notes = @ \cup {notes + 1}]
       IN  /\ configs' = IF MemorySource = "configs" THEN with(configs) ELSE configs
           /\ spare' = IF MemorySource = "spare" THEN with(spare) ELSE spare
           /\ durable' = IF MemorySource = "durable" THEN with(durable) ELSE durable
    /\ UNCHANGED <<files, nature, up, prefers, writable, seed, marked, persona, unrecorded>>

\* generate_agents_md: the card takes the place of the file, with the kernel on,
\* unless an earlier step of it raises; a write that fails leaves it cut off.
Generated(t) == IF nature = "generated" THEN {t, Nothing, [Nothing EXCEPT !.card = TRUE]} ELSE {t}

(***************************************************************************)
(* The migration of a boot that can write the volume.  Nothing there is    *)
(* clobbered; of the copies elsewhere, the one of a boot that could not    *)
(* write the volume comes first.  A photocopy of the rendered file is      *)
(* recorded as the seed.  Once marked, no memory is carried any more.      *)
(***************************************************************************)
Carried == IF spare.there THEN spare ELSE configs
Carries == ~marked /\ ~durable.there /\ Carried.there

\* Mutant: what a boot that could not write the volume noted is a seed too.
SeedsAll(recorded) == IF recorded /\ Carries THEN Carried ELSE seed

Seeds(recorded) == IF recorded /\ Carries /\ ~spare.there THEN configs ELSE seed

\* A pass that fails has copied nothing, or has not recorded, or not marked.  One
\* that cannot read what it has copied records nothing and marks all the same.
Results == {"recorded", "marked"} \cup (IF Carries THEN {"nothing", "copied", "unread"} ELSE {})

\* Another file may be recorded by a pass that cannot read the record: what it
\* said of this one is lost.  A pass is marked if it had anything to carry, which
\* may be cursors and tombstones.
Migrated(result) ==
    \E forgets \in BOOLEAN :
        /\ forgets => ~marked /\ ~Carries
        /\ durable' \in Generated(IF Carries /\ result # "nothing" THEN Carried ELSE durable)
        /\ seed' = IF forgets THEN NoFile ELSE Seeds(result \in {"recorded", "marked"})
        /\ marked' \in IF result \in {"unread", "marked"}
                       THEN {TRUE, marked \/ configs.there \/ spare.there} ELSE {marked}
        /\ unrecorded' = (unrecorded \/ (forgets /\ seed.there)
                             \/ (result \in {"copied", "unread"} /\ Carries /\ ~spare.there))
        /\ UNCHANGED spare

\* The notes that are in the copy now, and those the card wiped.  What a copy
\* brought along with the rendered file counts as part of its seed.
Rehomed(at, t, photocopied) ==
    [n \in 1..MaxNotes |->
        IF n \in t.notes /\ (home[n] = "seeded" \/ (photocopied /\ n \in configs.notes)) THEN "seeded"
        ELSE IF n \in t.notes THEN at
        ELSE IF home[n] = at THEN "gone" ELSE home[n]]

\* The base adapter's materialize_persona joins the declared files that are
\* there into system-prompt.md, declared or not.
Joined == persona \/ ("memory" \in files /\ ~IsEmpty(configs))

Boot ==
    /\ ~up /\ up' = TRUE
    /\ prefers' \in BOOLEAN /\ writable' \in IF prefers' THEN BOOLEAN ELSE {TRUE}
    /\ \/ /\ prefers' /\ writable'
          /\ \E result \in Results : Migrated(result)
          /\ home' = Rehomed("durable", durable', Carries /\ ~spare.there)
       \/ /\ prefers' /\ ~writable'
          /\ spare' \in Generated(spare) /\ home' = Rehomed("spare", spare', FALSE)
          /\ UNCHANGED <<durable, seed, marked, unrecorded>>
       \/ ~prefers' /\ UNCHANGED <<spare, durable, seed, marked, unrecorded, home>>
    /\ persona' \in {persona, Joined}        \* the adapter may have a file of its own
    /\ UNCHANGED <<files, nature, configs, notes>>

\* What the next boot finds does not depend on what this one found.
GoesDown ==
    /\ up /\ up' = FALSE /\ prefers' = TRUE /\ writable' = TRUE
    /\ UNCHANGED <<files, nature, configs, spare, durable, seed, marked, persona,
                   notes, home, unrecorded>>

PromptNext == Provision \/ AppendToMemory \/ Boot \/ GoesDown

(***************************************************************************)
(* The prompt.                                                             *)
(***************************************************************************)
\* The text starts with all of the other one.
StartsWith(t, prefix) ==
    \/ IsEmpty(prefix)
    \/ /\ t.role = prefix.role /\ t.card = prefix.card
       /\ t.tail = prefix.tail \/ (t.tail /\ prefix.notes = {})
       /\ prefix.notes \subseteq t.notes

Without(t, prefix) ==
    [t EXCEPT !.role = IF prefix.role = 0 THEN @ ELSE 0, !.tail = @ /\ ~prefix.tail,
              !.notes = @ \ prefix.notes]

\* The seed of the copy that is read is recorded, and the record can be read
\* when this prompt is built.
SeedKnown(legible) == seed.there /\ legible /\ MemorySource = "durable"

\* _evolved_memory_residue: what of the memory a writer put there.  The role of
\* now is looked for before the seed.
Residue(memory, role, legible) ==
    IF memory = role THEN NoFile
    ELSE IF StartsWith(memory, role) THEN Without(memory, role)
    ELSE IF SeedKnown(legible) THEN IF StartsWith(memory, seed) THEN Without(memory, seed) ELSE memory
    ELSE IF nature = "unlisted" THEN NoFile ELSE memory

\* A declared file is read from the configuration directory, and from the
\* memory only if it is not there.
RoleFile == IF configs.there THEN "configs" ELSE MemorySource
RolePart == IF "memory" \in files THEN Copy(RoleFile) ELSE NoFile

\* The role of the workspace reached the prompt.
RoleLoaded ==
    \/ "memory" \in files /\ configs.there /\ ~IsEmpty(configs)
    \/ files # {"memory"} /\ persona

\* Without a role the identity in a generated card is withheld.
Demoted(t) == IF RoleLoaded THEN t ELSE [t EXCEPT !.card = FALSE]

\* The memory is read where it is kept, or else in the configuration directory;
\* the same file is not read twice.
MemoryFile == IF Copy(MemorySource).there THEN MemorySource ELSE "configs"
MemoryPart(legible) ==
    IF "memory" \in files /\ ~IsEmpty(RolePart) /\ MemoryFile = RoleFile THEN NoFile
    ELSE IF "memory" \in files /\ RoleFile = "configs" /\ ~IsEmpty(configs)
         THEN Demoted(Residue(Copy(MemoryFile), configs, legible))
    ELSE Demoted(Copy(MemoryFile))

(***************************************************************************)
(* Properties.                                                             *)
(***************************************************************************)
\* A note that is in the memory of this boot is in the prompt, unless it came
\* there as part of a photocopy of the rendered file, or is in a declared file
\* that no writer is listed for and whose seed is not known
\* (prompt.py: _evolved_memory_residue).
NotesReachPrompt ==
    up => \A n \in 1..notes, legible \in BOOLEAN :
              home[n] = MemorySource =>
                  \/ n \in RolePart.notes \cup MemoryPart(legible).notes
                  \/ "memory" \in files /\ configs.there /\ nature = "unlisted" /\ ~SeedKnown(legible)

\* The role is in the prompt once, and no older version trails it, unless the
\* seed of the copy is not known; but when the role of now is an older one
\* without its last section, that section trails it.
RoleIsCurrent ==
    up /\ RolePart.role # 0 /\ RoleFile = "configs" /\ ~unrecorded =>
        /\ MemoryPart(TRUE).role = 0
        /\ MemoryPart(TRUE).tail => configs.role = Copy(MemoryFile).role /\ ~configs.tail

\* Without a role, the prompt introduces the agent by a generated card only if
\* the card stands in for a declared file.
CardIsWithheld ==
    up /\ ~RoleLoaded /\ "memory" \notin files => \A legible \in BOOLEAN : ~MemoryPart(legible).card

\* The prompt of a boot holds what the workspace and its agent made of it.
PromptIsWhole == NotesReachPrompt /\ RoleIsCurrent /\ CardIsWithheld
=============================================================================
