--------------------------- MODULE MailboxMigration ---------------------------
(***************************************************************************)
(* Where the runtime keeps its durable state, and how the state moves      *)
(* there (mailbox_dir.py).  With the mailbox kernel on, the files live on  *)
(* the workspace volume; before, and under the emergency opt-out, they     *)
(* live in the configuration directory.  The first boot with the kernel    *)
(* carries them over, a later one prefers a legacy copy that is newer.     *)
(*                                                                         *)
(* One file stands for the inbox cursors, tombstones and snapshots the     *)
(* runtime alone writes; its content is the number of the write.           *)
(***************************************************************************)
EXTENDS Naturals

CONSTANT MaxWrites  \* bound on writes

ASSUME MailboxAssumption == MaxWrites \in Nat

VARIABLES
    kernel,         \* MOLECULE_MAILBOX_KERNEL of this boot
    usable,         \* the workspace volume can be written in this boot
    others,         \* the configuration directory has other files to migrate
    legacy, base,   \* the write each copy holds, 0 for no file
    last,           \* the copy with the newer modification time
    migrated,       \* the marker of the migration
    failed,         \* the pass of this boot failed
    early           \* history: why a copy was there before a pass had succeeded

mailbox == <<kernel, usable, others, legacy, base, last, migrated, failed, early>>

Newest == IF last = "legacy" THEN legacy ELSE base

MailboxTypeOK ==
    /\ kernel \in BOOLEAN /\ usable \in BOOLEAN /\ others \in BOOLEAN
    /\ legacy \in 0..MaxWrites /\ base \in 0..MaxWrites
    /\ last \in {"none", "legacy", "base"}
    /\ migrated \in BOOLEAN /\ failed \in BOOLEAN
    /\ early \in {"no", "unmarked", "failed"}

\* A workspace from before the kernel, or a fresh one.
MailboxInit ==
    /\ kernel = TRUE /\ usable = TRUE /\ others \in BOOLEAN
    /\ legacy \in {0, 1} \cap 0..MaxWrites /\ base = 0
    /\ last = IF legacy = 0 THEN "none" ELSE "legacy"
    /\ migrated = FALSE /\ failed = FALSE /\ early = "no"

\* The durable directory of this boot: the volume, or with the opt-out or an
\* unwritable volume the configuration directory.
Resolve == IF kernel /\ usable THEN "base" ELSE "legacy"

\* Mutant: the later boots have nothing to do.
CarryFirstBootOnly ==
    IF Resolve = "legacy" \/ migrated THEN UNCHANGED mailbox
    ELSE /\ base' = IF base = 0 THEN legacy ELSE base
         /\ last' = IF base = 0 /\ legacy # 0 THEN "base" ELSE last
         /\ migrated' = (others \/ legacy # 0)
         /\ failed' = FALSE
         /\ UNCHANGED <<kernel, usable, others, legacy, early>>

\* Without a marker: what has no counterpart is copied, nothing is clobbered,
\* and the marker is written if the configuration directory had anything.
\* With one: a strictly newer legacy copy is carried over.
Carry ==
    LET takes == legacy # 0 /\ (base = 0 \/ (migrated /\ last = "legacy"))
    IN  IF Resolve = "legacy" THEN UNCHANGED mailbox
        ELSE /\ base' = IF takes THEN legacy ELSE base
             /\ last' = IF takes THEN "base" ELSE last
             /\ migrated' = (migrated \/ others \/ legacy # 0)
             /\ failed' = FALSE
             /\ UNCHANGED <<kernel, usable, others, legacy, early>>

\* An error in the middle leaves the rest to the next boot.  Each copy is a
\* rename, and the marker comes last.
CarryFails ==
    /\ Resolve = "base" /\ failed' = TRUE
    /\ \/ UNCHANGED <<base, last, early>>
       \/ /\ ~migrated /\ base = 0 /\ legacy # 0
          /\ base' = legacy /\ last' = "base" /\ early' = "failed"
    /\ UNCHANGED <<kernel, usable, others, legacy, migrated>>

\* The inbox poller, the heartbeat or the shutdown writes its state.
Write ==
    /\ legacy < MaxWrites /\ base < MaxWrites
    /\ LET n == (IF legacy < base THEN base ELSE legacy) + 1
       IN  IF Resolve = "base"
           THEN base' = n /\ last' = "base" /\ UNCHANGED legacy
           ELSE legacy' = n /\ last' = "legacy" /\ UNCHANGED base
    /\ early' = IF Resolve = "legacy" \/ early = "failed" THEN early
                ELSE IF failed THEN "failed"
                ELSE IF migrated THEN early ELSE "unmarked"
    /\ UNCHANGED <<kernel, usable, others, migrated, failed>>

\* Another environment for the next boot.
Reboot(k, u) ==
    /\ kernel' = k /\ usable' = u
    /\ UNCHANGED <<others, legacy, base, last, migrated, failed, early>>
=============================================================================
