------------------------------ MODULE Publishing ------------------------------
(***************************************************************************)
(* The hook after a turn that pushes the work of the agent and opens a     *)
(* pull request for it (executor_helpers.py: auto_push_hook,               *)
(* _auto_push_and_pr_sync).  Each hook is a thread that runs one git or gh *)
(* command after the other in the workspace's checkout; the agent's next   *)
(* turn works in the same checkout meanwhile.                              *)
(***************************************************************************)
EXTENDS Naturals

CONSTANTS
    Branch,         \* the agent's branches
    Hook,           \* the hooks that may run at a time
    MaxCommits      \* bound on the commits of a branch

ASSUME PublishingAssumption ==
    /\ MaxCommits \in Nat \ {0}
    /\ Branch \cap {"staging", "main", "HEAD"} = {}

\* _PROTECTED_BRANCHES; "staging" is the base of every pull request.
Protected == {"staging", "main"}
Branches == Branch \cup Protected

VARIABLES
    head,           \* what is checked out: a branch, or "HEAD" for a commit
    commits,        \* the last commit of each branch in the checkout, ahead of staging
    remote,         \* the last one of the remote, 0 if the branch is not there
    diverged,       \* the branches whose pushed history was rewritten
    pulls,          \* the branches with an open pull request
    hook,           \* where each hook stands
    target,         \* the branch it works for
    calm,           \* history: the checkout and the pull requests are as when it started
    strayed,        \* history: a pull request is for a branch its hook did not push
    moved,          \* history: the hooks in whose time something was checked out
    caughtUp        \* history: a hook has come through since anything changed

publishing == <<head, commits, remote, diverged, pulls, hook, target, calm, strayed, moved,
                caughtUp>>
checkout == <<head, commits, diverged>>

PublishingTypeOK ==
    /\ head \in Branches \cup {"HEAD"}
    /\ commits \in [Branches -> 0..MaxCommits] /\ remote \in [Branches -> 0..MaxCommits]
    /\ diverged \in SUBSET Branches /\ pulls \in SUBSET Branches
    /\ hook \in [Hook -> {"idle", "reading", "counting", "pushing", "listing", "creating"}]
    /\ target \in [Hook -> Branches]
    /\ calm \in SUBSET Hook /\ moved \in SUBSET Hook
    /\ strayed \in SUBSET Hook /\ caughtUp \in BOOLEAN

\* A fresh clone; the branch "main" has a commit that "staging" has not.
PublishingInit ==
    /\ head \in Protected
    /\ commits = [b \in Branches |-> IF b = "main" THEN 1 ELSE 0]
    /\ remote = commits
    /\ diverged = {} /\ pulls = {}
    /\ hook = [h \in Hook |-> "idle"] /\ target = [h \in Hook |-> "staging"]
    /\ calm = {} /\ strayed = {} /\ moved = {} /\ caughtUp = FALSE

(***************************************************************************)
(* The agent in its checkout, and people.                                  *)
(***************************************************************************)
Disturbs == calm' = {} /\ caughtUp' = FALSE

AgentCommits ==
    /\ head \in Branches /\ commits[head] < MaxCommits
    /\ commits' = [commits EXCEPT ![head] = @ + 1]
    /\ Disturbs /\ UNCHANGED <<head, remote, diverged, pulls, hook, target, strayed, moved>>

\* A commit that was pushed is amended.
AgentAmends ==
    /\ head \in Branches /\ remote[head] # 0 /\ commits[head] # 0 /\ head \notin diverged
    /\ diverged' = diverged \cup {head}
    /\ Disturbs /\ UNCHANGED <<head, commits, remote, pulls, hook, target, strayed, moved>>

AgentChecksOut(b) ==
    /\ head # b /\ head' = b
    /\ moved' = moved \cup {h \in Hook : hook[h] # "idle"}
    /\ Disturbs /\ UNCHANGED <<commits, remote, diverged, pulls, hook, target, strayed>>

ClosesPull(b) ==
    /\ b \in pulls /\ pulls' = pulls \ {b}
    /\ Disturbs /\ UNCHANGED <<checkout, remote, hook, target, strayed, moved>>

(***************************************************************************)
(* The hook.                                                               *)
(***************************************************************************)
Goes(h, to) == hook' = [hook EXCEPT ![h] = to]

\* The hook ends here; "done" if it found nothing left to do.
Leaves(h, done) ==
    /\ Goes(h, "idle")
    /\ caughtUp' = (caughtUp \/ (done /\ h \in calm))

HookStarts(h) ==
    /\ hook[h] = "idle" /\ Goes(h, "reading")
    /\ calm' = calm \cup {h} /\ moved' = moved \ {h} /\ strayed' = strayed \ {h}
    /\ UNCHANGED <<checkout, remote, pulls, target, caughtUp>>

\* A command fails, or does not end in time.
CommandFails(h) ==
    /\ hook[h] # "idle" /\ Leaves(h, FALSE)
    /\ UNCHANGED <<checkout, remote, pulls, target, calm, strayed, moved>>

\* Nothing is done for a protected branch or without a branch.
ReadsBranch(h) ==
    /\ hook[h] = "reading"
    /\ IF head \in Branch
       THEN /\ target' = [target EXCEPT ![h] = head]
            /\ Goes(h, "counting") /\ UNCHANGED caughtUp
       ELSE Leaves(h, TRUE) /\ UNCHANGED target
    /\ UNCHANGED <<checkout, remote, pulls, calm, strayed, moved>>

\* Are there commits ahead of staging, pushed or not?  Of a commit that is
\* checked out, there may be.
Ahead == IF head \in Branches THEN {commits[head] # 0} ELSE BOOLEAN

CountsCommits(h) ==
    /\ hook[h] = "counting"
    /\ \/ TRUE \in Ahead /\ Goes(h, "pushing") /\ UNCHANGED caughtUp
       \/ FALSE \in Ahead /\ Leaves(h, TRUE)
    /\ UNCHANGED <<checkout, remote, pulls, target, calm, strayed, moved>>

\* The branch that was read is pushed, whatever is checked out by now.  A
\* rewritten history is rejected; a push that is given up on may have arrived.
PushesBranch(h) ==
    /\ hook[h] = "pushing" /\ target[h] \notin diverged
    /\ remote' = [remote EXCEPT ![target[h]] = commits[target[h]]]
    /\ \/ Goes(h, "listing") /\ UNCHANGED caughtUp
       \/ Leaves(h, FALSE)
    /\ UNCHANGED <<checkout, pulls, target, calm, strayed, moved>>

ListsPulls(h) ==
    /\ hook[h] = "listing"
    /\ IF target[h] \in pulls THEN Leaves(h, TRUE)
       ELSE Goes(h, "creating") /\ UNCHANGED caughtUp
    /\ UNCHANGED <<checkout, remote, pulls, target, calm, strayed, moved>>

\* The pull request is for what is checked out now.  There is none for a branch
\* that is not on the remote, has one, or is the base.
CreatesPull(h) ==
    /\ hook[h] = "creating" /\ head \in Branches \ ({"staging"} \cup pulls)
    /\ remote[head] # 0
    /\ pulls' = pulls \cup {head}
    /\ strayed' = IF head # target[h] THEN strayed \cup {h} ELSE strayed
    /\ Leaves(h, TRUE)
    /\ UNCHANGED <<checkout, remote, target, calm, moved>>

PublishingNext ==
    \/ AgentCommits \/ AgentAmends
    \/ \E b \in Branches \cup {"HEAD"} : AgentChecksOut(b)
    \/ \E b \in Branches : ClosesPull(b)
    \/ \E h \in Hook :
          HookStarts(h) \/ CommandFails(h) \/ ReadsBranch(h) \/ CountsCommits(h) \/ PushesBranch(h)
              \/ ListsPulls(h) \/ CreatesPull(h)

(***************************************************************************)
(* Properties.                                                             *)
(***************************************************************************)
\* Once a hook has come through, and until anything changes, the work on the
\* branch that is checked out is on the remote and has a pull request: what an
\* earlier hook failed to do was made up for.
QuietIsPublished ==
    caughtUp /\ head \in Branch /\ commits[head] # 0 =>
        remote[head] = commits[head] /\ head \in pulls

\* No hook pushes to a protected branch, and a pull request for another branch
\* than the one that was pushed is opened only under a checkout.
ProtectedIsLeft ==
    /\ remote["main"] = 1 /\ remote["staging"] = 0
    /\ strayed \subseteq moved

\* The hooks publish the agent's work, all of it and nothing else.
WorkIsPublished == QuietIsPublished /\ ProtectedIsLeft
=============================================================================
