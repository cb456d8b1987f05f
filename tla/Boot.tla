--------------------------------- MODULE Boot ---------------------------------
(***************************************************************************)
(* The life of a workspace process (main.py): the boot steps in their      *)
(* order, the tasks that run while it serves, its end, and the next boot   *)
(* on the same volume.  The modules it extends say what the relay, the     *)
(* mailbox migration and the wake note do; this one adds the first prompt, *)
(* the registration, the install report and the start of the poller, and   *)
(* when each happens.                                                      *)
(*                                                                         *)
(* "trouble" is what goes wrong in a behaviour besides the process being   *)
(* killed: faults of the parts it names are possible, of others not.       *)
(***************************************************************************)
EXTENDS ConfigRelay, MailboxMigration, WakeNote, FiniteSets

CONSTANTS
    Troubles,       \* the sets of parts whose faults are combined
    MaxBoots,       \* bound on boots
    MaxAttempts     \* attempts of register_with_platform

Part == {"relay", "mailbox", "plugins", "prompt", "platform", "poll"}

ASSUME BootAssumption ==
    /\ Troubles \subseteq SUBSET Part
    /\ MaxBoots \in Nat /\ MaxAttempts \in Nat \ {0}

Phase == {"down", "relay", "unpack", "ack", "install", "plan", "kernel", "config",
          "preflight", "adapter", "probe", "setup", "register", "report", "heartbeat",
          "prompt", "wake", "serve", "closing", "stopping"}

\* Directories that may hold the marker of the initial prompt.
Place == {"configs", "image", "workspace"}

VARIABLES
    trouble, phase, boots,
    preparing,      \* the process is molecule-runtime-prepare
    ready,          \* the adapter is set up and has an executor
    attempt,        \* attempts of the registration so far
    registered,     \* this boot has seen the registration succeed
    minted,         \* the platform has issued the workspace's token
    token,          \* the token file: "none", "held" or "torn"
    report,         \* the install report: "unsent", "bare" or "authorized"
    lost,           \* history: the token was issued and never stored
    delivered,      \* config.yaml has been delivered to the volume
    markers,        \* places with a marker of the initial prompt
    greeting,       \* the initial prompt: "none", "waiting", "sending", "over"
    greeted,        \* history: boots that sent it
    unmarked,       \* history: a marker could not be written
    places,         \* history: places a marker of it was due in
    bound,          \* uvicorn has bound its sockets (server.started)
    poller,         \* the inbox poller: "none", "waiting", "on"
    message,        \* a message for it: "none", "staged", "posting", "taken", "dropped"
    slow            \* history: the poller did not wait any longer

process == <<trouble, boots, preparing>>
net == <<attempt, registered, minted, token, report, lost>>
prompt == <<delivered, markers, greeting, greeted, unmarked, places>>
poll == <<bound, poller, message, slow>>
bootVars == <<process, phase, ready, net, prompt, poll, relay, mailbox, wake>>

BootTypeOK ==
    /\ RelayTypeOK /\ MailboxTypeOK /\ WakeTypeOK
    /\ trouble \in Troubles /\ phase \in Phase /\ boots \in 0..MaxBoots
    /\ preparing \in BOOLEAN /\ ready \in BOOLEAN
    /\ attempt \in 0..MaxAttempts /\ registered \in BOOLEAN /\ minted \in BOOLEAN
    /\ token \in {"none", "held", "torn"} /\ report \in {"unsent", "bare", "authorized"}
    /\ lost \in BOOLEAN /\ delivered \in BOOLEAN /\ unmarked \in BOOLEAN
    /\ markers \in SUBSET Place /\ places \in SUBSET Place
    /\ greeting \in {"none", "waiting", "sending", "over"} /\ greeted \in 0..MaxBoots
    /\ bound \in BOOLEAN /\ poller \in {"none", "waiting", "on"} /\ slow \in BOOLEAN
    /\ message \in {"none", "staged", "posting", "taken", "dropped"}

BootInit ==
    /\ RelayInit /\ MailboxInit /\ WakeInit
    /\ trouble \in Troubles /\ phase = "down" /\ boots = 0
    /\ preparing = FALSE /\ ready = FALSE
    /\ attempt = 0 /\ registered = FALSE /\ minted = FALSE /\ token = "none"
    /\ report = "unsent" /\ lost = FALSE
    /\ delivered = TRUE /\ markers = {} /\ greeting = "none" /\ greeted = 0
    /\ unmarked = FALSE /\ places = {}
    /\ bound = FALSE /\ poller = "none" /\ message = "none" /\ slow = FALSE

May(part) == part \in trouble

At(p) == phase = p
Goto(p) == phase' = p /\ UNCHANGED <<process, ready>>

\* What a process that ends keeps on its volumes and forgets.
Ends ==
    /\ phase' = "down" /\ ready' = FALSE
    /\ attempt' = 0 /\ registered' = FALSE /\ report' = "unsent"
    /\ greeting' = "none"
    /\ bound' = FALSE /\ poller' = "none" /\ message' = "none" /\ slow' = FALSE
    /\ RelayLeft /\ WakeLeft
    /\ UNCHANGED <<process, mailbox, delivered, markers, greeted, unmarked, places>>

Fatal == Ends /\ UNCHANGED <<minted, token, lost>>

(***************************************************************************)
(* A new container, or the old one again, with the environment it is       *)
(* given.  What is on no volume may be gone.                               *)
(***************************************************************************)
Environment ==
    /\ \/ UNCHANGED relay
       \/ May("relay") /\ \E b \in Bundle : Provision(b)
    /\ \/ UNCHANGED mailbox
       \/ May("mailbox") /\ \E k, u \in BOOLEAN : Reboot(k, u)
    /\ delivered' \in (IF May("prompt") THEN BOOLEAN ELSE {TRUE})
    /\ markers' \in {markers, markers \ {"image"}}

Starts ==
    /\ At("down") /\ boots < MaxBoots
    /\ boots' = boots + 1
    /\ Environment
    /\ preparing' \in BOOLEAN
    /\ phase' = "relay"
    /\ UNCHANGED <<trouble, ready, net, greeting, greeted, unmarked, places, poll, wake>>

\* The container runs the serve after the prepare, whatever came of it.
Prepared ==
    /\ preparing' = FALSE /\ phase' = "relay" /\ ready' = FALSE
    /\ RelayLeft /\ WakeLeft
    /\ UNCHANGED <<trouble, boots, net, prompt, poll, mailbox>>

\* The deadline of the prepare is noticed between two steps.
PrepareEnds == preparing /\ phase \notin {"down", "unpack"} /\ Prepared

(***************************************************************************)
(* The boot, step by step.                                                 *)
(***************************************************************************)
RelaySkipped ==
    /\ At("relay") /\ Materialized
    /\ Goto("install") /\ UNCHANGED <<net, prompt, poll, relay, mailbox, wake>>

RelayFetched ==
    /\ At("relay") /\ Fetch
    /\ Goto("unpack") /\ UNCHANGED <<net, prompt, poll, mailbox, wake>>

\* No bundle, or not the one whose hash was promised: refuse to boot.
RelayFails == At("relay") /\ ~Materialized /\ (~staged \/ May("relay")) /\ Fatal

RelayUnpacks ==
    /\ At("unpack") /\ \E x \in File : Unpack(x)
    /\ IF left' = {} THEN Goto("ack") ELSE Goto("unpack")
    /\ UNCHANGED <<net, prompt, poll, mailbox, wake>>

\* An entry that is not valid is found when its turn comes.
RelayRejects == At("unpack") /\ May("relay") /\ Fatal

RelayAcks ==
    /\ At("ack")
    /\ \E written, acked \in BOOLEAN :
          /\ (~written \/ ~acked) => May("relay")
          /\ MarkAndAck(written, acked)
    /\ Goto("install") /\ UNCHANGED <<net, prompt, poll, mailbox, wake>>

\* Module PluginInstall says what the boot installation does; here it leaves
\* some set of plugins.
PluginsInstalled ==
    /\ At("install")
    /\ \E ps \in SUBSET Plugin : (ps # tree => May("plugins")) /\ Tree(ps)
    /\ Goto("plan") /\ UNCHANGED <<net, prompt, poll, relay, mailbox>>

WakePlanned ==
    /\ At("plan")
    /\ \/ Prepare(tree)
       \/ /\ May("plugins")
          /\ Prepare({}) \/ PrepareUnsaved(tree) \/ PrepareForgetting(tree)
    /\ Goto("kernel") /\ UNCHANGED <<net, prompt, poll, relay, mailbox>>

\* The state is carried over before the poller and the heartbeat read it; a
\* pass that fails is tried once more.
KernelInstalled ==
    /\ At("kernel")
    /\ Carry \/ (May("mailbox") /\ CarryFails)
    /\ Goto("config") /\ UNCHANGED <<net, prompt, poll, relay, wake>>

ConfigLoaded ==
    /\ At("config")
    /\ Goto("preflight") /\ UNCHANGED <<net, prompt, poll, relay, mailbox, wake>>

\* A warning is reported and booted over, a failure ends the boot.
Preflighted ==
    /\ At("preflight")
    /\ \/ Goto("adapter") /\ UNCHANGED <<net, prompt, poll, relay, mailbox, wake>>
       \/ May("plugins") /\ Fatal

\* A runtime nobody has registered ends it too: nothing stands in for it.
AdapterLoaded ==
    /\ At("adapter")
    /\ \/ Goto("probe") /\ UNCHANGED <<net, prompt, poll, relay, mailbox, wake>>
       \/ May("plugins") /\ Fatal

\* A platform agent whose management probe cannot be wired does not serve;
\* another workspace falls back to the settings file.
ProbeWired ==
    /\ At("probe")
    /\ \/ Goto("setup") /\ UNCHANGED <<net, prompt, poll, relay, mailbox, wake>>
       \/ May("plugins") /\ Fatal

\* The failure of a privileged plugin's setup is not survived.
SetupAborts == At("setup") /\ May("plugins") /\ Fatal

\* An adapter that cannot be set up leaves a workspace that answers that it
\* is not configured.
SetupDone ==
    /\ At("setup") /\ ~preparing
    /\ ready' \in (IF May("plugins") \/ May("prompt") THEN BOOLEAN ELSE {TRUE})
    /\ phase' = "register"
    /\ UNCHANGED <<process, net, prompt, poll, relay, mailbox, wake>>

\* A prepare ends here.
PrepareDone == At("setup") /\ preparing /\ Prepared

\* The platform issues the token with the first registration it sees.  The
\* request or the reply may be lost, the platform may answer with an error;
\* a client error is not tried again.
RegisterLost(reached) ==
    /\ minted' = (minted \/ reached)
    /\ lost' = (lost \/ (reached /\ ~minted))
    /\ attempt' = attempt + 1
    /\ IF attempt' = MaxAttempts THEN Goto("report") ELSE Goto("register")
    /\ UNCHANGED <<registered, token, report>>

RegisterRefused ==
    Goto("report") /\ UNCHANGED <<attempt, registered, minted, token, report, lost>>

\* Mutant: the token of the answer is not stored.
RegisterAnsweredForgetting(saved) ==
    /\ lost' = (lost \/ (~minted /\ ~saved))
    /\ minted' = TRUE /\ registered' = TRUE
    /\ Goto("report")
    /\ UNCHANGED <<attempt, token, report>>

\* The token is written over the file, not renamed into place; an error is
\* reported and forgotten.
RegisterAnswered(saved) ==
    /\ token' = IF minted \/ ~saved THEN token ELSE "held"
    /\ lost' = (lost \/ (~minted /\ ~saved))
    /\ minted' = TRUE /\ registered' = TRUE
    /\ Goto("report")
    /\ UNCHANGED <<attempt, report>>

Registers ==
    /\ At("register")
    /\ \/ RegisterAnswered(TRUE)
       \/ /\ May("platform")
          /\ RegisterAnswered(FALSE) \/ RegisterRefused
             \/ \E reached \in BOOLEAN : RegisterLost(reached)
    /\ UNCHANGED <<prompt, poll, relay, mailbox, wake>>

\* One report, with what the token file holds now.
Reports ==
    /\ At("report")
    /\ report' = IF token = "held" THEN "authorized" ELSE "bare"
    /\ Goto("heartbeat")
    /\ UNCHANGED <<attempt, registered, minted, token, lost, prompt, poll, relay, mailbox, wake>>

HeartbeatStarts ==
    /\ At("heartbeat")
    /\ Goto("prompt") /\ UNCHANGED <<net, prompt, poll, relay, mailbox, wake>>

\* Without a delivered config.yaml the one baked into the image is loaded, and
\* its directory becomes the configuration directory.
ConfigBase == IF delivered THEN "configs" ELSE "image"

\* The marker goes there, or to the workspace in a boot that finds that
\* directory read-only.
MarkerPlaces == IF May("prompt") THEN {ConfigBase, "workspace"} ELSE {ConfigBase}

\* The marker of the first prompt is written before the prompt is scheduled.
Greets ==
    /\ At("prompt")
    /\ \E place \in MarkerPlaces :
          IF ready /\ place \notin markers
          THEN /\ greeting' = "waiting" /\ places' = places \cup {place}
               /\ \/ markers' = markers \cup {place} /\ UNCHANGED unmarked
                  \/ May("prompt") /\ unmarked' = TRUE /\ UNCHANGED markers
          ELSE UNCHANGED <<greeting, markers, unmarked, places>>
    /\ Goto("wake")
    /\ UNCHANGED <<net, delivered, greeted, poll, relay, mailbox, wake>>

WakeScheduled ==
    /\ At("wake")
    /\ \/ ready /\ \E saved \in BOOLEAN : (saved \/ May("plugins")) /\ MarkAttempt(saved)
       \/ (~ready \/ plan.adds = {}) /\ UNCHANGED wake
    /\ poller' \in (IF May("poll") THEN {"none", "waiting"} ELSE {"none"})
    /\ Goto("serve")
    /\ UNCHANGED <<net, prompt, bound, message, slow, relay, mailbox>>

(***************************************************************************)
(* Serving, and closing: the sockets are closed and the requests drained,  *)
(* and the tasks of the process still run.                                 *)
(***************************************************************************)
Up == phase \in {"serve", "closing"}

Listening == At("serve") /\ bound

Binds ==
    /\ At("serve") /\ ~bound
    /\ bound' = TRUE
    /\ Goto("serve") /\ UNCHANGED <<net, prompt, poller, message, slow, relay, mailbox, wake>>

\* Wait for the server to be started, or a minute, then send.
GreetingSent ==
    /\ Up /\ greeting = "waiting" /\ (bound \/ May("poll"))
    /\ greeting' = "over" /\ greeted' = greeted + 1
    /\ Goto(phase)
    /\ UNCHANGED <<net, delivered, markers, unmarked, places, poll, relay, mailbox, wake>>

NoteProceeds ==
    /\ Up
    /\ \/ \E up \in BOOLEAN : (IF up THEN Listening ELSE May("plugins") \/ At("closing")) /\ Probe(up)
       \/ \E told, ok \in BOOLEAN : ((told /\ ok) \/ May("plugins")) /\ Send(told, ok)
       \/ \E saved \in BOOLEAN : (saved \/ May("plugins")) /\ Consume(saved)
    /\ Goto(phase) /\ UNCHANGED <<net, prompt, poll, relay, mailbox>>

\* The poller starts when the server is started, or after a minute.
PollerStarts ==
    /\ Up /\ poller = "waiting"
    /\ poller' = "on" /\ slow' = ~bound
    /\ Goto(phase) /\ UNCHANGED <<net, prompt, bound, message, relay, mailbox, wake>>

MessageStaged ==
    /\ poller # "none" /\ message = "none" /\ message' = "staged"
    /\ Goto(phase) /\ UNCHANGED <<net, prompt, bound, poller, slow, relay, mailbox, wake>>

\* The poller is a thread that nothing stops: it goes on until the process
\* is gone.
MessagePolled ==
    /\ poller = "on" /\ message = "staged" /\ message' = "posting"
    /\ Goto(phase) /\ UNCHANGED <<net, prompt, bound, poller, slow, relay, mailbox, wake>>

\* The consumer posts to the local executor; while nobody listens it tries
\* again, ten seconds long.
MessagePosted ==
    /\ message = "posting" /\ message' = IF Listening THEN "taken" ELSE "dropped"
    /\ Goto(phase) /\ UNCHANGED <<net, prompt, bound, poller, slow, relay, mailbox, wake>>

StateWritten ==
    /\ Up /\ May("mailbox") /\ Write
    /\ Goto(phase) /\ UNCHANGED <<net, prompt, poll, relay, wake>>

\* The server is told to stop: it closes its sockets first.
Stops ==
    /\ At("serve")
    /\ Goto("closing") /\ UNCHANGED <<net, prompt, poll, relay, mailbox, wake>>

\* The server has returned: the snapshot is written, what was only scheduled
\* is cancelled, and the end of the daemons is awaited.
Closes ==
    /\ At("closing")
    /\ greeting' = IF greeting = "waiting" THEN "none" ELSE greeting
    /\ poller' = IF poller = "waiting" THEN "none" ELSE poller
    /\ \E told \in BOOLEAN : Cancel(told)
    /\ Write \/ UNCHANGED mailbox
    /\ Goto("stopping")
    /\ UNCHANGED <<net, delivered, markers, greeted, unmarked, places, bound, message, slow, relay>>

Exits == At("stopping") /\ Fatal

\* Killed, at any point; a token that is being written may be torn.
Killed ==
    /\ phase # "down" /\ Ends
    /\ \/ UNCHANGED <<minted, token, lost>>
       \/ /\ At("register") /\ May("platform") /\ ~minted
          /\ minted' = TRUE /\ token' = "torn" /\ lost' = TRUE

BootNext ==
    \/ Starts \/ PrepareEnds \/ PrepareDone \/ Killed \/ Stops \/ Closes \/ Exits
    \/ RelaySkipped \/ RelayFetched \/ RelayFails \/ RelayUnpacks \/ RelayRejects \/ RelayAcks
    \/ PluginsInstalled \/ WakePlanned \/ KernelInstalled \/ ConfigLoaded
    \/ Preflighted \/ AdapterLoaded \/ ProbeWired \/ SetupAborts \/ SetupDone
    \/ Registers \/ Reports \/ HeartbeatStarts \/ Greets \/ WakeScheduled
    \/ Binds \/ GreetingSent \/ NoteProceeds \/ PollerStarts
    \/ MessageStaged \/ MessagePolled \/ MessagePosted \/ StateWritten

(***************************************************************************)
(* Properties.                                                             *)
(***************************************************************************)

\* A boot goes on only with the configuration it was given: every file is of
\* the bundle the environment names, unless files of some bundle were unpacked and no
\* marker was written after them (config_relay.py:398-427).
WholeConfig ==
    phase \notin {"down", "relay", "unpack"} /\ offered # NoBundle =>
        dirty \/ \A x \in File : conf[x] = offered

\* With the kernel on the workspace reads the state that was written last,
\* through migrations, opt-outs and unwritable volumes, unless the volume
\* got its copy before a pass had succeeded (mailbox_dir.py:600-733).
LatestIsServed ==
    At("config") /\ Resolve = "base" => failed \/ early # "no" \/ base = Newest

\* A plugin the record did not know is never forgotten without a word: until
\* the user has been told, or it was tried often enough, the record still
\* shows it as new or pending (reprovision_wake.py:180-284).
NeverSilent ==
    due \subseteq record.pending \cup (tree \ record.known)

\* The first prompt is sent once for each directory its marker had to go to,
\* over restarts, crashes and directories that turn read-only; more often only
\* when a marker could not be written, or went with a container whose own
\* configuration directory it was in (main.py:1612-1624, initial_prompt.py:26-35).
PromptOnce ==
    greeted > Cardinality(places) => unmarked \/ "image" \in places

\* The install report of a boot that registered carries the token, unless the
\* token was issued and lost (main.py:1398-1426).
ReportIsAuthorized ==
    registered /\ report = "bare" => lost

\* No polled message is dropped for want of a listener, unless the server took
\* more than a minute to bind or is being stopped (main.py:568-618, 2122).
DropHasCause ==
    message = "dropped" => slow \/ phase \in {"closing", "stopping"}

\* Over boots and crashes the user hears of new plugins, and is greeted once.
UserIsTold == NeverSilent /\ PromptOnce

\* The platform gets the report it can accept, and the poller's messages land.
PlatformIsServed == ReportIsAuthorized /\ DropHasCause
=============================================================================
