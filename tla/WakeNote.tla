------------------------------- MODULE WakeNote -------------------------------
(***************************************************************************)
(* Telling the user about newly installed plugins (reprovision_wake.py).   *)
(* Each boot compares the plugins tree with the record of the last one.    *)
(* The record is refreshed at once when there is nothing new; otherwise it *)
(* names what is pending and how often it was tried, and is refreshed when *)
(* the note has been sent.                                                 *)
(***************************************************************************)
EXTENDS Naturals

CONSTANTS
    Plugin,         \* plugin names
    MaxWake         \* MAX_WAKE_ATTEMPTS

ASSUME WakeAssumption == MaxWake \in Nat \ {0}

Record == [known : SUBSET Plugin, pending : SUBSET Plugin, tries : 0..MaxWake]
NoRecord == [known |-> {}, pending |-> {}, tries |-> MaxWake + 1]
Known(ps) == [known |-> ps, pending |-> {}, tries |-> 0]
Plan == [adds : SUBSET Plugin, tries : 0..MaxWake, current : SUBSET Plugin]
NoPlan == [adds |-> {}, tries |-> 0, current |-> {}]

VARIABLES
    tree,           \* the live plugins tree
    record,         \* the state file, NoRecord when there is none
    plan,           \* the plan of this boot
    note,           \* "none", "probing", "sending", "sent", "over"
    due             \* history: new plugins the user has not been told of

wake == <<tree, record, plan, note, due>>

WakeTypeOK ==
    /\ tree \in SUBSET Plugin /\ due \in SUBSET Plugin
    /\ record \in Record \cup {NoRecord} /\ plan \in Plan
    /\ note \in {"none", "probing", "sending", "sent", "over"}

WakeInit == tree = {} /\ record = NoRecord /\ plan = NoPlan /\ note = "none" /\ due = {}

\* The boot installation has put another tree in place.
Tree(ps) ==
    /\ tree' = ps
    /\ due' = IF record = NoRecord THEN {} ELSE (due \cap ps) \cup (ps \ record.known)
    /\ UNCHANGED <<record, plan, note>>

\* Mutant: what is new is consumed when it is detected.
PrepareConsuming(current) ==
    LET fresh == current \ record.known
    IN  /\ record' = Known(current)
        /\ plan' = IF record = NoRecord THEN NoPlan
                   ELSE [adds |-> fresh \cup record.pending, tries |-> 0, current |-> current]
        /\ due' = IF record = NoRecord THEN {} ELSE due
        /\ UNCHANGED <<tree, note>>

\* The plan of this boot from what the directory listing gives, which is
\* nothing when the listing fails.
Prepare(current) ==
    LET again == record.pending \cap current
        adds == (current \ record.known) \cup again
        tries == IF adds \subseteq again THEN record.tries ELSE 0
    IN  /\ CASE record = NoRecord \/ adds = {} ->
                  /\ record' = Known(current) /\ plan' = NoPlan
                  /\ due' = IF record = NoRecord THEN {} ELSE due
             [] record # NoRecord /\ adds # {} /\ tries >= MaxWake ->
                  record' = Known(current) /\ plan' = NoPlan /\ due' = due \ adds
             [] OTHER ->
                  /\ plan' = [adds |-> adds, tries |-> tries, current |-> current]
                  /\ UNCHANGED <<record, due>>
        /\ UNCHANGED <<tree, note>>

\* A record that cannot be read, or one that cannot be refreshed.
PrepareForgetting(current) ==
    record' = Known(current) /\ plan' = NoPlan /\ due' = {} /\ UNCHANGED <<tree, note>>

PrepareUnsaved(current) ==
    LET again == record.pending \cap current
        adds == (current \ record.known) \cup again
    IN  /\ record # NoRecord
        /\ adds = {} \/ (adds \subseteq again /\ record.tries >= MaxWake)
        /\ plan' = NoPlan
        /\ UNCHANGED <<tree, record, note, due>>

\* An attempt is recorded before the note is scheduled; one that cannot be
\* recorded is not made.
MarkAttempt(saved) ==
    /\ plan.adds # {} /\ note = "none"
    /\ record' = IF saved THEN [known |-> plan.current, pending |-> plan.adds,
                                tries |-> plan.tries + 1]
                 ELSE record
    /\ note' = IF saved THEN "probing" ELSE "over"
    /\ UNCHANGED <<tree, plan, due>>

\* The agent card answers, or does not within the probe window.
Probe(ready) ==
    /\ note = "probing"
    /\ note' = IF ready THEN "sending" ELSE "over"
    /\ UNCHANGED <<tree, record, plan, due>>

\* Five attempts: the user may have been told although each seemed to fail.
Send(told, ok) ==
    /\ note = "sending" /\ (ok => told)
    /\ due' = IF told THEN due \ plan.adds ELSE due
    /\ note' = IF ok THEN "sent" ELSE "over"
    /\ UNCHANGED <<tree, record, plan>>

Consume(saved) ==
    /\ note = "sent"
    /\ record' = IF saved THEN Known(plan.current) ELSE record
    /\ note' = "over"
    /\ UNCHANGED <<tree, plan, due>>

\* The task is cancelled; a note that is being sent in a thread may arrive.
Cancel(told) ==
    /\ told => note = "sending"
    /\ due' = IF told THEN due \ plan.adds ELSE due
    /\ note' = IF note = "none" THEN "none" ELSE "over"
    /\ UNCHANGED <<tree, record, plan>>

\* What a process that ends leaves behind.
WakeLeft == plan' = NoPlan /\ note' = "none" /\ UNCHANGED <<tree, record, due>>
=============================================================================
