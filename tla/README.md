# A verification project for the workspace runtime

These TLA+ modules model the concurrent and failure-prone parts of the agent
workspace runtime in `src/molecule_runtime/`: how requests become agent turns, how
results, messages and events come in, what keeps the daemons and schedules of a
workspace going, how a workspace comes up on its volume boot after boot, and the
services an agent calls while it runs. TLC checks them on small instances; TLAPS
proves the safety properties for any number of requests, rows, tasks, daemons, boots,
plugins, skills or senders and any limits. Paths below are relative to the repository; file
names without a directory are in `src/molecule_runtime/`. The lines every
definition translates are in `PROJECT.json` under `map`.

## The system

A workspace runs one agent behind an A2A HTTP endpoint. Around it are background
loops, most of them on the same asyncio event loop, some in threads of their own.
They influence each other through a handful of shared things: the per-conversation
inbox entry, the count of active tasks, the results file, the wedge flag, the turn
lease, the self-messages they post to the agent, and the files on the volume.

| Part (code) | State | Operations | What is hard | What makes it correct | Module |
|---|---|---|---|---|---|
| Turn executor (`a2a_executor.py`, `runtime_inbox.py`) | `InboxEntry` per conversation; active-task count | a request arrives, is dropped, preempts, is deferred or told busy; a turn streams, is interrupted, stopped, drained, fails, is cancelled | one asyncio task per request, all reading and writing one entry between awaits | one turn per conversation; an acknowledged message is kept exactly once; flags and counters do not outlive the turn | `TurnExecutor` |
| Delegation registry and harvester (`builtin_tools/delegation.py`, `heartbeat.py`) | history, seen and written ids, retry counts, tombstones and results file (disk) | delegate, mirror, poll, append, wake, retry, bury | partial writes, lost wakes, evicted ids, restart between two durable steps | a result is delivered at most once, suppressed only after it was written | `DelegationHarvest` |
| Idle digest (`idle_digest/`), loop guard (`autonomous_loop_guard.py`) | baseline of what was last posted; quarantine; count of identical replies, halted latch | tick, gather, fire, post, merge | a post lasts a whole turn and the world moves meanwhile | what changed is posted; what did not is not; an endless loop stops | `IdleDigest` |
| Turn lease (`turn_lease.py`, `turn_lease_executor.py`, `subprocess_executor.py`) | two clocks per process, the mtime of the activity file, a registry of scopes keyed by task | touch, reset, expire, enter and leave a scope | feeds from other processes, nested and overlapping scopes, owners that died | a live turn is not reaped, a silent or overlong one is | `TurnLease` |
| Inbox poller (`inbox.py`, `inbox_uploads.py`, `a2a_tools_inbox.py`) | cursors (memory and disk), bounded queue, upload cache | poll, fetch, record, save, acknowledge, wait, pop, recover from 410 | threads per workspace and per upload, crash between two steps, pruned rows | no row is skipped or shown twice without a cause; no lost wake-up | `InboxPoller` |
| Plugin daemon supervisor (`plugin_daemons.py`, `daemon_runtime.py`) | specs, processes, one monitor per daemon, a socket and token per plugin | start, hot addition, spawn, restart with backoff, give up, stop | a thread per daemon against stop(), failed binds rolled back | a child has one owner; a dead one is revived or given up; a shutdown ends | `DaemonSupervisor` |
| Schedules (`schedule_store.py`, `schedule_seed.py`, `trigger_state.py`, `schedule_engine.py`, `schedule_outcome.py`) | grid, tombstones, streaks, the root they live in | create, edit, delete, seed from three sources, record outcomes, disable, move | who owns an entry, two writes of which one fails, a new root | the user's edits survive, releases reach the rest, failing schedules are disabled | `Schedules` |
| Process bootstrap (`main.py`, `config_relay.py`, `mailbox_dir.py`, `reprovision_wake.py`, `preflight.py`, `initial_prompt.py`) | boot phase, relay marker, durable state and its copies, token, wake record | fetch and unpack configuration, migrate, register, report, greet, tell of new plugins, poll | killed anywhere, next boot on the same volume | right configuration, newest state, told once | `Boot` with `ConfigRelay`, `MailboxMigration`, `WakeNote` |
| Plugins (`plugin_sources.py`, `plugins_registry/`) | live and staging trees, marker, ownership records, `settings.json`, memory blocks | two passes per boot, swap by two renames, install, uninstall | sources fail one by one, servers run out of the tree that is replaced, the user edits the same files | whole trees of what is declared; only one's own files are touched | `PluginInstall`, `PluginFiles` |
| A2A client and tools (`a2a_client.py`, `a2a_tools_*.py`, `builtin_tools/memory.py`) | routes, rows, peer records, calls under way | delegate with retries and fallback, message the user, read and write memory | the reply is lost after the task was taken | what is reported as done was done | `A2ACalls` |
| MCP server (`a2a_mcp_server.py`, `platform_tools/registry.py`) | event streams with bounded queues, pushes | answer over stdio, HTTP or a stream; push inbox messages | a stream ends with answers on the way, or at its first event | an answer at most once | `McpServer` |
| Approvals, pauses, scripts (`builtin_tools/approval.py`, `hitl.py`, `sandbox.py`, `proc_group.py`, `runtime_inbox.py`) | approvals at the platform, paused tasks, process groups, the process of a conversation | ask, listen, poll, pause, resume, run, stop, kill | decisions over two channels, late or doubled; two processes and one place for them | nothing gated runs without a reason | `Oversight` |
| Readiness (`mcp_readiness_probe.py`, `loaded_mcp_tools_probe.py`, `platform_agent_identity.py`, `heartbeat.py`) | published list, signal, time | probe, publish, beat | two publishers, one reader with one lock per value | a heartbeat says what was observed | `Readiness` |
| Skills (`skill_loader/`, `skills_render.py`, `adapter_base.py`, `security_scan.py`) | copies on disk, in the adapter, in the hashes | load, scan, watch, reload, show | an editor writes at any time | what is served is what was seen | `Skills` |
| Prompt (`prompt.py`, `mailbox_dir.py`, `agents_md.py`, `persona_render.py`) | up to three copies of one file | render, migrate, append, assemble | photocopies of the role in the memory | notes stay, the role is there once | `SystemPrompt` |
| Files of a message, push after a turn (`executor_helpers.py`) | upload at the platform, cache; branches and pull requests | resolve, acknowledge, stage; push, open | the platform deletes what is acknowledged; the next turn works in the checkout | files whole, work published | `Attachments`, `Publishing` |
| Channel events (`channel_events.py`) | lanes, posts in chunks | admit, stamp, deliver | cut-off bodies, claims of the sender | a message is from its lane | `LocalEvents` |

What the rest does (schemas, wording, headers, telemetry, budgets, release scripts)
is listed in `PROJECT.json` with its reason and under "Not modelled" below.

How the parts interact:

    delegate_task_async -> background task -> platform row
                                                |  poll (every interval)
    results file  <- append -  HeartbeatLoop._check_delegations
        |                                       |  self-message
        v                                       v
    TurnExecutor.Receive (takes all) <- a request (user, idle digest, schedule,
        |                                channel event, wake note, inbox push, ...)
        v
    one turn per conversation, others preempt / are deferred / dropped / busy
        |  arms the lease, reads attachments, calls tools (MCP server -> A2A client,
        |  approvals, scripts), records the outcome of a schedule
        v
    reply, files, push of the branch

    boot: relay -> plugins -> wake plan -> mailbox -> config -> adapter (skills,
          prompt) -> register -> report -> heartbeat -> prompt -> wake -> serve
          (poller, daemons, schedules)

## Modules

The modules down to `Schedules` are specifications of their own, each but `TurnService` with
an `MC` module, a `.cfg` of its name and a `Proofs` module, which `DaemonSupervisor` and
`Schedules` share (`DaemonProofs`; the names of the initial states, the next-state relation and
the like therefore have a prefix in `Schedules`). `Provisioning` and `Services` have these too.

| Module | What it models |
|---|---|
| `TurnExecutor` | `_core_execute` and `cancel` over the inbox entry; one action per stretch of code between two awaits |
| `TurnService` | the abstract promise of the executor: a message is accepted or refused, an accepted one becomes part of an active turn, is replied to or abandoned; nothing is replied to twice (`TurnExecutorProofs` proves the refinement) |
| `DelegationHarvest` | the background task of a delegation, the poll, the append, the wake, the tombstones, a restart |
| `IdleDigest` | the tick with its two gathers, the delta gate, the post, the baseline, the quarantine, and the breaker |
| `TurnLease` | the lease, its scopes, its feeds and who reads it |
| `InboxPoller` | the platform's log, the polling threads, the upload workers, the queue and its readers, a restart |
| `DaemonSupervisor` | `ensure_daemons` with its binds and roll-back, the monitors and their children, `stop()` |
| `Schedules` | the operations of the store, the seedings, the runs, the boots |
| `Boot`, with `ConfigRelay`, `MailboxMigration`, `WakeNote` | the life of a process and the next one on the same volume |
| `PluginInstall`, `PluginFiles` | the trees of the plugins; the files their adaptors write |
| `Provisioning` | the three above side by side, for one run |
| `A2ACalls`, `McpServer` (extends it) | the tools that reach peers, user and memory; their server |
| `Oversight`, `Readiness`, `Skills`, `SystemPrompt`, `Attachments`, `Publishing`, `LocalEvents` | the other services of a serving process |
| `Services` | all of these side by side, for one run |

### TurnExecutor

`pc[r]` is where the asyncio task that serves request `r` stands, at the await it
is suspended in. `new` and `arriving` come before the entry is looked at (the
results file is already consumed then: `Receive`), `Enter*` is the fast path up to
`turn_in_flight = True`, `starting` and `streaming` are the model loop, `closing`
the end of its stream after an interrupt, `publishing` the final message, `failing`
the error path, `releasing` the `finally` block. `fate[r]` is what has become of
the message: `working` when the current pass of a turn answers it, `queued` while
it is in `pending_messages`, and otherwise how it ended.

The entry's fields are variables of the same name. What a request is (`kindOf`)
stands for its text and its source marker. Three ways of reading it matter
because the code reads at different times: `IsRoutineTurn` is computed from the
message as it arrived, `IsRoutineNow` after delegation results were put in front
of the text (a text prefix no longer matches), `source` is kept in the entry for
the turn that holds it. `set_current_task` increments on a label and decrements on
none, with a floor at zero; a message of files alone has no label, which is why
`TaskCount` takes whether there is one.

A cancellation (`Cancel`, from the framework's cancel of a request) is asked
first and hits at an await of the task: before its entry (`ArrivalCancelled`),
in its turn (`TaskCancelled`), or in the first await of `finally`
(`ReleaseCancelled`), where it skips the rest of the cleanup.

### DelegationHarvest

`task[d]` is the background task with the local status it maintains, `row[d]`
the row of the platform's list, `tracked` the keys of `_delegations`. A poll is
one action up to its first await: it computes `Noticed` (awaited, finished, not
seen), marks them seen, evicts ids over the limit, prunes retry counts, appends
what was not written yet. Three outcomes: `PollFinds`, `PollCannotWrite` (the
append raised: what was marked as written need not have reached the file),
`PollFindsNone`. Then `resolving` (who is the parent) and `waking` (the POST of
the self-message), with four outcomes: dropped by the open breaker, delivered,
surely not delivered (tried again up to `MaxWakes`), unknown.

`seen`, `written`, `retries` and `phase` die with the process, `tombs` and
`file` survive. The ghost variables record what the properties speak of:
`wakes` counts self-messages per result, `forgotten` what eviction dropped from
the seen ids, `torn` the lines a failing close of the file lost.

The lines of the file are consumed in `TurnExecutor` (`Harvest` there is the
append here, `TakeResults` the reading). Here the file counts every line
ever appended, so that a second line is visible after the first was read.

### IdleDigest

`says[p]` is what provider `p` would contribute now and `down` who would fail; both
change between any two awaits of the loop. The section of a goal (`Cadenced`) is
`due` until it was posted, then `fresh` until its cadence has elapsed. A tick is
`BeginTick` (the breaker is looked at, quarantines are counted down or turned into
probation), then one of `TickSleeps`, `TickUnchanged`, `TickSkipped` and `TickFires`
when all providers have answered, then the post, which lasts a turn of the agent
(`PostSucceeds` with the callbacks, or `PostFails`), then `PeekEnds` with the second
gather, the merge and the saving. The signature of a section is the section.
`RoutineOutput` is the end of any turn the replay guard judges; what makes an output
a replay is left to chance, the count and the latch are modelled.

The ghosts: `shown[p]` is what the agent was last told of `p`; `moved` holds those
whose baseline differs from it for a reason the loop cannot help (it changed
during the turn, its reset was not seen, or a restart loaded an older file); `calm`
says that nothing of the kind, and no failure, has happened since the last digest
was recorded; `misses` counts the ticks a provider failed in a row; `late` the
digests posted with the breaker open.

### TurnLease

Time is counted in units and a clock stops one unit past the limit it is compared
with. `pc[t]` says where the delivery `t` stands, `scopes[t]` is its entry in
`_ACTIVE_SCOPES`, and `flavour` decides who enters a scope: the native executor arms
the lease itself and waits for its stream with the idle cap, a subprocess executor
enters the scope a second time, a template's executor does not. `Delivers`,
`RunsAgent`, `RunsTemplate`, `RunsNative`, `TurnEnds`, `Returns` are the life of a
delivery; `Abandons` is a task that dies without leaving its scope. Activity comes
from the stream (`Streams`), from the file a child process touches (`Bumps`, seen by
`Watches`) and from gates on tools (`Gates`); `Probes` is the snapshot a trigger
daemon reads. The ghost `age` is the true age of a turn, `silent` and `quiet` the
time since activity of the turn and of anybody, `wronged` the turns found dead though
they were active, `declined` those refused a scope because of an abandoned one,
`overlaid` the native turns another conversation has re-dated the lease of.

### InboxPoller

A row is its position in the log, which stands for id and seq. `pc[w]` is where the
polling thread of workspace `w` stands: `reading` the rows of a response one by one,
`fetching` an upload it waits for, `saving` the cursor, `acking`. A poll asks for the
rows after the cursor, or without one for those of the backlog window, and gets a 410
when the row of its cursor was pruned; then the cursor is dropped. `SubmitsUpload`
starts a worker (`FetchStages`, `FetchFails`, `FetchEnds`), which the poller waits for
or gives up. The queue drops its oldest at `Capacity`, the cache of resolved URIs one at
`CacheSize`. `wait()` is two steps, the clearing of the event and the wait, because
a record may fall in between. A restart keeps the cursor files and the platform.
Ghosts: `recorded`; `missed` (what the platform withheld); `once` and `twice` (recorded
since the position was last behind a row, and again although it was not); `blamed` and
`raw` (uploads with a reason to be unresolved, and those shown bare without one).

### DaemonSupervisor

`ensure_daemons` is serialised by its lock: `Discovers` finds the `fresh` daemons of the
installed plugins and the sockets to bind, `Binds` or `BindFails` (with the roll-back)
ends in `Supervises`. A monitor spawns, registers, watches, judges an exit (breaker
or backoff) and starts again; the child is alive, has had its SIGTERM, or is dead.
`stop()` sets the event, takes the registered children, reaps them, joins the monitors
with a time-out, shuts the sockets; a monitor that registered too late ends its own
straggler. `lane[p]` is the token the socket of a plugin serves, `env[d]` the one the
next child of a daemon gets, `token[d]` the one the last child got.

### Schedules

No operation awaits between its read and its last write, so an operation is one action,
but one that writes two files may fail after the first (`torn`). An entry has its
source, its text (0 for the user's, otherwise a release of the template) and whether
it is enabled. The file of a trigger plugin seeds all or nothing, the configuration and
a plugin's settings skip invalid entries.

The files live in one of two roots, and `grid`, `tombs` and `errors` are of each.
`resolve_trigger_state_dir` is asked by every call (`root`), so `RootMoves` lets the
answer change between two: the durable directory cannot be made, or its probe says
ephemeral, and the calls fall back to the legacy root, with nothing carried back.
`MovesTo` is the first call of a process that finds the durable root: if it has no grid
and the legacy root has one, that is copied whole, cut (it parses to some of its
entries, the last perhaps without its source, or not at all: `spoiled`) or not at all
(the error is only logged), and not tried again in this process (`tried`). The list of
files has neither the tombstones, under the name they are written, nor the streaks. The
daemon keeps the root it was given at boot (`fed`). `Wipes` is a provision that
recreates the legacy root.

A run ends with a text, without one, failing at the provider, or for a reason that does
not count. Its outcome goes through `_attribute_schedule_outcome`, where everything that
raises is swallowed (`trouble`): the streaks cannot be read and count as none, their save
fails, or the disabling after it. The ghosts `mine` and `deleted` say what the user did
last in a root, `left` what the copy left behind, `lapsed` that the root in use lacks
what the other has, `missed` which streaks of a root missed a good run, and `run[n]` how
many runs really failed in a row.

### Provisioning: Boot, PluginInstall, PluginFiles

`phase` goes through the boot steps of `main.py` in their order; `trouble` is the set
of parts whose faults a behaviour may show, and a kill is possible everywhere. What
survives is the volume: the unpacked files and the marker of the relay, the two
copies of the durable state with the marker of the migration, the record of the
wake note, the token, the markers of the first prompt. `ConfigRelay`,
`MailboxMigration` and `WakeNote` have the operators, `Boot` their places.

Where the marker of the first prompt goes is decided in each boot: the directory the
configuration was loaded from (`/configs`, or the one in the image, which a new container
loses), or the workspace if that boot finds it read-only (`MarkerPlaces`); `places` is the
history of what was chosen. The way down has three steps. `Stops` closes the sockets and
`closing` is the draining of the requests; `Closes` is the end of the server, where what
was only scheduled is cancelled (a note in a thread may still arrive); in `stopping` the
daemons are stopped, and `Exits` is the end. The poller is a thread that nothing stops: it
polls and posts to closed sockets until `Exits`.

`PluginInstall` runs two passes per boot (prepare, serving); each fetches the declared
sources one by one, carries over what could not be fetched, checks the manifests,
compares the staged tree with the live one and swaps by two renames, either of which
may fail or be the last thing the process did. `signal` says that the boot was given a
declared set at all: one whose sources cannot be parsed (`declared` is empty) still
promotes an empty tree, none leaves everything alone, as do two sources of one name and
a staging directory that cannot be made. `MoveIn` promotes the tree with its marker or, when
that could not be written, without; then the history is unknown and every directory that is
only live counts. `PluginFiles` is the adaptor of each
live plugin in the order of names: files by skill directory, hooks, a block in the
memory file, handlers and servers in `settings.json`, `setup.sh`, and the ownership
record written last; the user edits between any two rounds. `Uninstalls` is the adaptor's
removal as it is written: nothing but the tests calls it so far
(`plugins_registry/builtins.py:1397-1407`), so of what the model says of a removal a
running workspace shows only the part that a reinstallation does first.

An installation shows the life of the process only which plugins are there, and
the adaptors only the revisions. `focus` therefore picks one of the three for a behaviour.

### Services: the calls of an agent and its host

- `A2ACalls`: a delegation takes one of three ways (the proxy with retries of broken
  connections; the `/delegate` rows with polling; the fallback from one to the other
  when the peer only queues). `taken` counts what was accepted, whatever the caller was
  told. Messages with files to the user and the memory tools are `errand`, one at a time.
  Peer records are fetched in the background under a set of those in flight.
- `McpServer`: a request is answered over stdio, over HTTP, or through the queue
  of an event stream; a full queue, a tool that raises, an
  unknown tool and a body that is no object are answered as the code answers them. A stream
  is `opened` with its queue in the table (`registered`), sends its first event, and only
  then runs under the `finally` that takes the queue out: a host that goes before leaves it
  there (`FirstEvent`), one that goes later or is silent for five minutes does not
  (`StreamTimes`, `StreamEnds`). The module extends `A2ACalls` because its pushes of inbox
  messages start the fetches.
- `Oversight`: an approval is created, then awaited over a websocket that carries
  decisions of other approvals too and may break, then polled; `pause_task` waits on an
  event in a registry keyed by task; `run_code` has a process group that is killed
  at its time-out, or not at all when the waiting call is cancelled. The conversation of a
  turn has one place for the process a Stop can reach (`current`): a second script takes it
  (`displaced`), one outside a turn never has it. A Stop asks the process in that place to
  end, and two seconds later kills whatever is there by then (`StopTerminates`, `StopKills`);
  it ends the leader, and what is left of the group is `rest`. One conversation is modelled,
  as no other looks into its place, and one Stop at a time.
- `Readiness`: the prober of the management server and the listing at boot publish
  into one place, value by value; a beat reads the values one after the other.
- `Skills`: load, scan, watch in two looks, reload into an adapter that keeps its skills,
  its tools as well, or neither (the reload is then dropped), and the place at which the
  skills are shown to a runtime that finds them by itself: a link, or an entry in a
  configuration that may be somebody's own, not a mapping, or with entries that are no list.
- `SystemPrompt`: up to three copies of one file (configuration directory, volume, the
  spare of a boot without volume), with the seed manifest that tells a photocopy from notes.
  A text has a version of the role, with or without its last section (`tail`), so that one
  role may be a prefix of the next; `Residue` asks in the order of the code: the same as
  the role, an extension of it, an extension of the seed, neither. A pass of the migration
  may fail before any of its steps, go on without recording what it could not read
  (`Results`), or lose what an unreadable manifest said of other files; the manifest may be
  unreadable as well when the prompt is built (`legible`).
- `Attachments`, `Publishing`, `LocalEvents`: as in the table of parts.

Only the pushes of the server and the fetches of peer records share state; otherwise
`Services` is a side-by-side run like `Provisioning`, with the part chosen by `focus`.

## Runs

Every run ends with its whole state space explored. `PROJECT.json` has one mutant for
each property of a passing run: a changed form of one action or helper, the slip
one could make in that code, under which TLC finds the property violated.

| Run | Instance | Properties |
|---|---|---|
| `turns` | two user messages (symmetric), an idle wake-up and a message of files alone in two conversations; queue of one, one Stop or cancellation, one result | `OneTurnPerContext`, `WorkIsKept`, `NoStrayInterrupt`, `NoPhantomBusy` |
| `promise` | a user message, an idle wake-up, an unmarked routine ping; queue of two, two Stops | `KeepsPromise`, `TurnsEnd` |
| `harvest` | two new delegations and an old one; history 1, seen ids 2, two attempts, one restart, two evictions | `DeliveredOnce`, `HarvestGoesOn` |
| `digest` | a mail section and a goal; two changes, an outage, a restart; quarantine after two failures for one tick, then two | `FiresForCause`, `NothingMissed`, `DigestGoesOn` |
| `lease` | three deliveries (symmetric) in two conversations; `Ttl` and `IdleCap` 2, `Cap` 3; all three flavours | `LeaseIsTrue`, `LeakHeals` |
| `inbox` | one workspace, one waiter; queue 2, page 2, cache 1; three rows, of them one upload, one that ages; one restart | `NoLostWakeup`, `RowsAreKept`, `CatchesUp` |
| `daemons` | two plugins with a daemon each, one of them a trigger; breaker at two, two tokens | `ChildrenAreKept`, `DaemonsGoOn` |
| `schedules` | one name, of the template, disabled at two failures, two releases, two changes of root | `UserOwnsHis`, `EngineIsFair`, `FailingIsDisabled` |
| `provisioning` | four boots, two bundles of two files, two plugins, four writes; three sources, one pinned, one shared, one revision the gate rejects; two plugins that share a hook, three events | see below |
| `services` | two calls, requests, approvals, pauses, tasks, scripts and skills; one peer, stream, upload and branch; two versions of the role and one note; two hooks, two lanes | see below |
| `slot_released` | three requests | `SlotReleased` is violated |
| `deleted_stays_deleted` | as `schedules` | `DeletedStaysDeleted` is violated |

Executor:

- `OneTurnPerContext`: at most one task of a conversation is inside a turn.
- `WorkIsKept`: what was acknowledged as queued is in the queue of its
  conversation, exactly once, and nothing else is (`QueuedIsPending`); a pass is only
  cut short for another message when the turn belongs to an idle wake-up
  (`OnlyIdleYields`); a message in work has a live turn (`WorkHasTurn`); a delegation
  result is in the file or with one request (`ResultGivenOnce`).
- `NoStrayInterrupt`: an interrupt flag is only up while someone is there to see it.
- `NoPhantomBusy`: the active-task count never exceeds the number of running turns.
- `KeepsPromise`: the refinement of `TurnService`; `TurnsEnd`: every turn ends.

Harvester:

- `DeliveredOnce`: a result gets one line (`LineOnce`), is suppressed only when it has
  one (`TombstoneHasLine`), is announced at most `MaxWakes` times (`WakeBudget`), and
  after its tombstone never again (`DeliveredIsFinal`). `LineOnce` and `WakeBudget`
  exempt ids that eviction dropped from the seen set, as the code does.
- `HarvestGoesOn`: the state that makes the idle loop skip its tick ends
  (`WaitingEnds`); an outcome the platform lists reaches the file (`FinishedIsWritten`).

Idle digest:

- `NothingMissed`: a tick that finds nothing new has told the agent what every
  provider in working order says, but for sections in `moved`.
- `FiresForCause`: in calm the next digest says something the last did not
  (`NoDoubleFire`: what the second gather is there for, the goal changes by being
  posted); who is quarantined has failed `MaxFailures` ticks in a row, and who has is
  quarantined (`QuarantineEarned`); the open breaker lets one digest in flight pass
  (`LateOnce`).
- `DigestGoesOn`: a quarantined provider that stays up is asked again, unless the breaker
  opens (`QuarantineEnds`); the open breaker ends the loop (`HaltEndsLoop`).

Turn lease:

- `LeaseIsTrue`: no dropped, nested or overlapping delivery moves the absolute clock
  of the turn the lease was armed for (`DatedToTurn`); whatever touches the lease, a
  native turn without an event is given up at the first time-out past the cap
  (`CapIsFinal`); within the cap neither the idle cap nor a snapshot finds a turn dead
  that was active within `Ttl` (`FedIsAlive`).
- `LeakHeals`: an abandoned scope stops no later turn from having its own.

Inbox:

- `NoLostWakeup`: nobody blocks on the event while a message is queued.
- `RowsAreKept`: what a cursor or an acknowledgement has left behind was recorded,
  withheld by the platform, or an echo (`NothingSkipped`); no row is acknowledged that
  a restart would ask for again (`AckIsDurable`); a row is presented again only when the
  position has fallen behind it (`OncePerRewind`); a bare URI has a cause (`RawHasCause`).
- `CatchesUp`: again and again every row logged so far is recorded.

Daemons:

- `ChildrenAreKept`: a live child has a monitor or a `stop()` that will end it
  (`LiveIsOwned`), never both (`OneReaper`), its token is the one its socket serves
  through every roll-back (`TokenIsServed`), and it survives the process only when its
  monitor was in the grace period as the join gave up (`SurvivorHasCause`).
- `DaemonsGoOn`: a dead child is revived unless the breaker tripped or the workspace
  stops (`Revives`); a shutdown ends (`StopFinishes`).

Schedules:

- `UserOwnsHis`: what the user made or edited in a root is there with the user's text,
  and the root in use has what he did in the other, unless the carry-over failed or was
  cut, or the calls fell back (`EditsSurvive`); what was deleted comes back only if its
  tombstone was not written, or left behind by the copy (`ReturnHasCause`).
- `EngineIsFair`: the streak of a root never exceeds the runs that failed in a row, unless
  a good run was not recorded there, because the save failed or the other root was in use
  (`StreakIsReal`); a release reaches every entry the user has not made his own, except
  those that a cut copy left without a source, since a disabling by the engine is no edit
  (`ReleaseArrives`).
- `FailingIsDisabled`: a schedule that goes on failing is disabled in the end, if the
  daemon fires from the root in use and the streak there is not lost again for ever.

Provisioning, life of the process:

- `WholeConfig`: a boot goes on only with the bundle the environment names, unless
  files were unpacked and no marker written after them.
- `LatestIsServed`: with the kernel on the workspace reads the state written last,
  through migrations, opt-outs and unwritable volumes, but for a volume that got
  a copy before a pass had succeeded.
- `UserIsTold`: a new plugin stays new or pending in the record until the user was told
  or it was tried often enough (`NeverSilent`); the first prompt is sent at most once for each
  directory its marker had to go to, unless the marker could not be written, or was in the
  image's directory and went with the container (`PromptOnce`).
- `PlatformIsServed`: the report of a registered boot carries the token unless that was
  issued and lost (`ReportIsAuthorized`); no polled message is dropped for want of a
  listener, unless binding took more than a minute or the process is being stopped
  (`DropHasCause`).

Provisioning, plugins:

- `KeepsInstalled`: a declared plugin that was live when a pass began is live when it
  ends, unless the directory could not be put back.
- `TreeIsDeclared`: only whole trees that passed the gate (`OnlyWholeTrees`), and none of
  a plugin no longer declared after a pass that fetched everything (`DeDeclaredGoes`).
- `SwapIsJust`: a pass that reports a promotion has one (`ReportIsTrue`), and the second
  pass swaps the tree under the servers only where a source moved, or to drop a plugin
  when the live tree has no marker (`NoNeedlessSwap`).
- `OwnsItsFiles`: only one's own files are touched (`OnlyItsOwn`), and all of them go with
  an uninstall (`CleanUninstall`). `StaleHasCause`: what stays is of the live revision,
  unless an installation was cut short.
- `HooksSettle`: three undisturbed rounds after the last change every handler is there.
  Neither one nor two are enough, which is why the property counts rounds: when
  `settings.json` was malformed as the first began, that round skips the handlers, a plugin
  with a server rewrites the file, the second round cannot see what is missing while it takes
  out and puts back what the records list, and the third restores it. On three plugins TLC
  shows it; on the two of the run two rounds are, and the proof is what found the difference.

Services:

- `TwiceHasCause`: a task is accepted twice only after a broken connection or a queueing
  peer. `ReplyIsReal`: what a tool reports as done has been done.
- `AnsweredOnce`: at most one answer, and none only if a stream ended before it took it.
- `RunsOnlyApproved`: a gated tool runs once per approval of this very call or bypassing
  role; twice only if the bypassed run raised and a human then approved.
- `ReadyIsObserved`: a beat that says the management tools are ready lists the verb that
  makes them so, unless its prober published between the reads of the beat.
- `NothingLeaks`: a fetch in flight has its worker; a queue in the table has the task of its
  stream, but for a host that left at the first event (`QueueIsServed`); who is paused is
  in the registry; a living process of a script is in the place a Stop looks at, unless
  its call was cancelled, no turn started it or another took the place, and a Stop finds no
  process of a call that is over (`ChildIsHeld`).
- `SkillsAreServed`: while nothing reloads, a skill is served as last seen or newer, but
  for the causes `because` names, of which one is an adapter that keeps no list
  (`ServedIsSeen`); what was authored at the place of the link stays, and so does a
  configuration, but for entries that are not a list (`AuthoredIsKept`).
- `PromptIsWhole`: notes in this boot's memory reach the prompt, unless they are in a declared
  file no writer is listed for and its seed is not known (`NotesReachPrompt`); no older role
  trails the one of now unless the seed was not recorded, but the last section of a role
  that was shortened by it does (`RoleIsCurrent`); a generated card only stands in for a
  declared file (`CardIsWithheld`).
- `NothingIsGarbled`: files are whole, acknowledged only when held, and a reply's copies
  stay (`FilesArrive`); hooks publish the branch's work and leave protected branches
  alone (`WorkIsPublished`); a message is from its lane (`MessageIsOfItsLane`).

### Bounds

Two messages of one kind, one of another and a second conversation let every pair of
fast-path decisions race with every stage of a turn; a queue of one makes it full at
once. Two delegations are needed for batches in which results have different numbers
of failed attempts behind them, a history of one makes the second evict the first, and
the old delegation gives the seen ids something to be cut down to. In `digest` two
changes let a section vanish and come back, and one outage lasts as long as it likes,
so that probation fails and the backoff reaches its cap.

Three deliveries make a nested, an overlapping and a dropped one possible at once, and
`Cap` above `Ttl` and `IdleCap` lets each clock run out while the other has time. Three
rows overflow a queue of two and make a second page; one that ages may be pruned
under a cursor or an upload. That workspaces share the queue and the cache is beyond
the bounds of `inbox` and is covered by the proofs, which are for any number. Two
tokens let a second install bind or fail after the first has published. Two changes of
root are the carry-over and a fall back after it, or a fall back and a return. Names of
schedules meet only in the limit of entries, in a seeding that it refuses, and in the
file of the streaks, so `schedules` has one; the proofs are for any. Four boots are a first one,
one that fails, one that repairs it and one that sees the result. In `services` two of
everything that may be confused with its like are enough for a confusion; one
suffices for what is only compared with itself. The properties of the prompt speak of one
note at a time, so one note is enough there; `Init` of `services` leaves out settings of the
scan that are read only in the mode `block`. The two largest runs are `provisioning`
with 4.55 and `services` with 2.49 million states, about three minutes each.

`MaxRestarts`, `MaxMoves`, `MaxEvictions`, `MaxRows`, `MaxTokens`, `MaxBoots`, `MaxWrites`,
`MaxEvents` and the like bound what the code does not bound; each is named as a
bound where it is declared. The constants named after a limit of the code are small
values of that limit.

`CHECK_DEADLOCK FALSE` is set where a model ends: all requests are served, the rows,
boots, changes or restarts of the bounds are used up, the process has exited. `lease` and
`schedules` go on for ever and are checked for deadlock. The runs with liveness use no
symmetry.

### Fairness

`TurnExecutor`: an event loop runs every ready task again, so each task that can
take its next step does (`Enter`, `Advance`). That a stream ends by itself is
the recursion limit of the agent and the idle and absolute caps of
`turn_lease.py`. Nothing makes a request arrive, be stopped or fail.

`DelegationHarvest`: the heartbeat loop goes round for ever, its calls have
timeouts and the cooldown is a time, so a due poll happens and a wake ends. A
failed append is retried by the next poll; fairness is on the disjunction of
the successful polls, which says that the disk is not full for ever. Nothing is
assumed of peers, of the platform's deliveries or of restarts.

`IdleDigest`: weak fairness of the next step of the tick. The loop is a task of
the event loop, providers and post have timeouts. `BeginTick` also needs that the
loop finds no turn in flight and no delegation results on their way; turns
end (`TurnsEnd`) and results stop being waited for (`HarvestGoesOn`), but a workspace
that is busy at every wake-up of the loop would not be idle, and the fairness
leaves it out. Nothing makes a provider recover or an output a replay.

`InboxPoller`: weak fairness of the next step of each polling thread. Every one of its
requests and waits has a time-out, and it repeats a failed request after five seconds;
which of the outcomes it gets is left open, so the cursor may fail to be saved for ever.
Workers and the readers of the queue need not move.

`DaemonSupervisor`: threads are scheduled (`MonitorStep`), a shutdown that has begun is
carried through (`StopStep`), and a bind returns or fails (its call has a time-out). No
child has to exit, no plugin has to be installed.

`Schedules`: the trigger daemon goes on firing what is enabled (weak fairness of
`RunStarts`), and neither reading, saving nor disabling fails for ever (strong fairness
of a failing run without trouble). `FailingIsDisabled` speaks of schedules whose runs
go on failing, fired from the root in use, and whose streak on disk only grows from some
point on: an unreadable file (`schedule_outcome.py:92`) starts it anew each time.

`TurnLease`, `Provisioning` and `Services` state no fairness and check safety only.

## Proofs

TLAPS proves, for any sets and limits that satisfy the named assumptions of the
modules (`TurnAssumption`, `HarvestAssumption`, `DigestAssumption`, `LeaseAssumption`,
`InboxAssumption`, `DaemonAssumption`, `ScheduleAssumption`, and those of the parts of
`Provisioning` and `Services`):

| Module | Theorem | Property |
|---|---|---|
| `TurnExecutorProofs` | `TypeCorrect`, `MutualExclusion`, `WorkKept` | `TypeOK`, `OneTurnPerContext`, `WorkIsKept` |
| | `InterruptsAreMeant`, `BusyIsReal` | `NoStrayInterrupt`, `NoPhantomBusy` |
| | `Refinement` | `KeepsPromise`: initial states map to initial states, every step to a step of `TurnService` or a stutter |
| `DelegationHarvestProofs` | `HarvestTypeCorrect`, `ResultsDeliveredOnce` | `TypeOK`, `DeliveredOnce` |
| `IdleDigestProofs` | `DigestTypeCorrect`, `NothingIsMissed`, `FiringHasCause` | `TypeOK`, `NothingMissed`, `FiresForCause` |
| `TurnLeaseProofs` | `LeaseTypeCorrect`, `LeaseTellsTruth`, `LeaksHeal` | `TypeOK`, `LeaseIsTrue`, `LeakHeals` |
| `InboxPollerProofs` | `InboxTypeCorrect`, `EachRowIsKept`, `NobodySleepsThrough` | `TypeOK`, `RowsAreKept`, `NoLostWakeup` |
| `DaemonProofs` | `DaemonsTypeCorrect`, `ChildrenHaveOwners` | `TypeOK`, `ChildrenAreKept` |
| | `SchedulesTypeCorrect`, `UserIsOwner`, `EngineIsJust` | `ScheduleTypeOK`, `UserOwnsHis`, `EngineIsFair` |
| `ProvisioningProofs` | `ProvisioningTyped` | `TypeOK` |
| | `ConfigIsWhole`, `LatestServed`, `UserTold`, `PlatformServed` | `WholeConfig`, `LatestIsServed`, `UserIsTold`, `PlatformIsServed` |
| | `InstalledKept`, `TreesDeclared`, `SwapsAreJust` | `KeepsInstalled`, `TreeIsDeclared`, `SwapIsJust` |
| | `StaleExplained`, `HooksSettled`, `FilesOwned` | `StaleHasCause`, `HooksSettle`, `OwnsItsFiles` |
| `ServicesProofs` | `ServicesInductive`, `ServicesTyped` | the inductive invariant; `TypeOK` |
| | `DelegatedOnce`, `RepliesHold`, `HostAnsweredOnce` | `TwiceHasCause`, `ReplyIsReal`, `AnsweredOnce` |
| | `GatesHold`, `ReadyBeats`, `LeaksNothing` | `RunsOnlyApproved`, `ReadyIsObserved`, `NothingLeaks` |
| | `SkillsServed`, `PromptWhole`, `GarblesNothing` | `SkillsAreServed`, `PromptIsWhole`, `NothingIsGarbled` |

Each proof has the same shape: an inductive `IInv`, proved in `Init` and kept by
every action, one step per action.

For the executor the properties are almost inductive together. What they need
besides is `Fresh`: a message has no fate and holds nothing before its task has
come that far, so that a task entering cannot find its message in a queue.

A Stop may come before its request has run, or take it back from the queue; once it has,
nothing gives the request a turn again (`OvertookStays`), so with no turn in flight an
interrupt is that of such a Stop (`InterruptHasCause`). The active-task count goes up
with a turn that begins and down with one that ends (`CountMoves`); `CountHolds` adds that the
running turns are finitely many, so that they can be counted without assuming that `Request`
is finite.

For the harvester none of the properties is inductive. Whether a line is
repeated depends on which set remembers it at the moment, and a result wanders:
seen and written while its batch is announced, written but no longer seen while
a retry waits, seen only once delivered, a tombstone later, nothing after a
restart. `IInv` says where it may be:

- `LinesMarked`: whoever has a line is marked as written or is `Closed`: seen, no
  longer awaited, or gone from the listing.
- `WakesCounted`: the wakes sent are the attempts counted, plus one in flight, or
  the result is closed.
- `RetriesMarked`: a pending retry is marked as written and its row finished, so a
  poll that drops it finds it closed.
- `BatchMarked`: the batch is written, seen and without tombstone.
- `RowsOpen`, `Unstarted`: a delegation cannot become awaited again once it has a row
  that finished, because only a fresh one is started.
- `MarksHaveLine`: written and buried ids have their line, or it was torn.

The three outcomes of a poll are instances of one step (`PollStep`) that differs
in what was written, marked and left seen; `PollKeeps` is proved once for it.

For the idle digest the gate compares with the baseline and the properties speak of
what was shown, so the invariant has to say where the two agree, and what the
counters are between the two halves of a gather:

- `BaselineIsShown`: outside `moved` an entry is what the agent was told. Each of
  the four branches of the merge has its own reason to keep this.
- `CalmIsSettled`: in calm nothing has moved and nobody is quarantined, so a
  difference from the baseline is something to tell.
- `RowsCounted`: a provider that may be asked counts its misses below the limit, or is
  on probation, one below it, until its gather ends.
- `LateInFlight`: a late digest means the breaker is open and no gather under way.

For the lease the properties speak of true ages, the code of two clocks that anybody
in the process may move:

- `Held`: a task that lives has a scope, whoever is armed or overlaid lives, and a native
  turn is one the lease was armed for. So the only steps that re-date the lease
  are those of an outermost scope and of another native turn.
- `Fresh`: while a turn is armed, within the cap, the idle clock is not ahead of its age,
  nor of the time since the last activity unless that is still only in the file.
- `Bounded`: the silence of a native turn is at most the cap plus the present wait, which
  the idle cap bounds; within the cap it is at most the age.

For the inbox the proof is for any number of workspaces that share the queue, the
event and the cache, while the run has one:

- `Polls`: what a thread holds fits where it stands: nothing when idle, rows beyond the
  cursor and the last one handled while reading, up to the largest of the response.
- `Ledger`: what is behind a cursor, or behind the top of a response and not in the batch,
  is recorded, missed or an echo; what was recorded is behind the cursor or the poller.
- `Behind`: the acknowledgement is of a row of the workspace and not ahead of any cursor
  that is set, in memory or on disk.
- `About`, `Resolved`: a message is about an upload of its own workspace; an upload
  without an excuse is resolvable or its poller waits for it.
- `Awake`: with a message queued a call that is about to block will find the event set.

A page is a prefix or a suffix of the rows asked for (`OldestIsPrefix`, `NewestIsSuffix`);
that a response has a largest row (`Largest`) follows from well-foundedness, and that the
cache fits (`CacheFits`) from the theorems on cardinality.

For the supervisor `IInv` adds:

- `Counted`: a count at the limit means the daemon was given up.
- `Watched`: who is registered is watched, and what `stop()` has taken is watched or its
  monitor has ended, so it is not spawned again.
- `Ended`: children are taken only while reaping, and after the join every monitor is
  done or in its grace period.
- `Addressed`: a token in a spec is the one the lane serves or none, and the plugins
  being bound have no lane, so that a roll-back withdraws no token a child was given.

For the schedules it adds `Buried` (what was deleted has its tombstone, unless torn or
left), `Touched` (tombstones and entries of the user's are of names he touched in that
root) and `Roomed` (a root without a grid has nothing of the user's, and the legacy root
is in use beside a durable grid only once something has lapsed), so that a copy
overwrites nothing and no move loses what has not lapsed.

For provisioning `ProvInv` is the invariant of the three parts together; each part keeps
its own and stutters while another steps. For the boot:

- `InOrder`: what a boot has not done before it comes to the step that does it.
- `RelayVouches`: the marker of the relay vouches for every file unless files were unpacked
  after it, and what the unpacking has done is of the offered bundle.
- `CopyHasCause`: a copy on the volume without the marker of the migration was made before
  a pass had succeeded.
- `DueIsPlanned`, `GreetingIsMarked`: what the user is owed is installed and in the plan that
  will tell it; the prompts sent, or about to be, are no more than the places their markers
  had to go to, and these are all marked. `Late` are the phases after that step.
- `TokenHasCause`, `PollerHasCause`: an issued token is held or was lost, only a poller
  has a message, and one that did not wait for the listener was slow.

For the trees: `PassKeeps` (until it swaps, a pass leaves the live tree as it found it),
`StagingIsFetched` and `StagingIsWhole` (what is staged was fetched, after failures also all
that was live, and nothing in it is torn but copies of the shared directory, or of a
revision the gate rejects), `MarkerIsTrue` and `MarkerIsDeclared` (the marker names
everything fetched and only what is live, and after a clean pass only what is declared), both as long as there is one.

For the files the ownership record is compared with the disk, which the user edits, and
rounds go through the plugins by name, so the invariant follows the round:

- `LedgerIsOwn`, `DiskIsRecorded`, `InstallIsRecorded`: a record names only what its plugin
  wrote; what a plugin wrote is in its record, or in the new one of the installation under
  way, or still to be handled by it, unless an installation was cut short.
- `GotIsCurrent`, `RoundIsFresh`: what the round at hand has installed is of the revision
  that is live.
- `FileIsRepaired`, `RecordsSettle`, `HandlersSettle`: in the first undisturbed round a
  malformed file is rendered anew, in the second the records come to name only what is
  contributed now, and in the third nothing is taken out any more. Within a round each holds
  for the plugins it has passed.

For the services `ServicesInv` is the invariant of the ten modules together. A step is of
one of them and the others stutter, but for the pushes of the server, which fetch peer
records: `ServerStep` keeps the invariants of both.

- `A2ACalls`: `TakenInOrder` accounts for what was accepted at every place a call can be
  in: nothing before it sends, no more than the broken connections whenever it is about
  to send again, one more once an answer is on its way, and one more for a peer that queued
  the task before the fallback. `RepliesAreReal` adds that only a call that is over has a result.
- `McpServer`: `QueuesAreServed`, a queue holds requests of its own stream and only while
  the stream is registered, and a stream is registered from its opening to its end, so that
  one that ends leaves none behind; a request that is not over has no answer.
- `Oversight`: `RunsCounted` ties the runs of a tool to where its call stands; with the gate
  still to be passed it has run only if the bypassed run raised. `EntriesWait`: an
  entry of the registry is of a call that waits for that task. `HandlesHeld`: a call of a turn that
  waits for its process has the place or was displaced, the call in the place is not over, a
  living process of a call that is over was abandoned, and there is none before the start.
- `Readiness`: `ProberInOrder`, a list the prober seeded is the one it found until it was
  ready once, and has the verb from then on; `BeatInOrder`, a beat has no signal before it
  reads one, and what it has read is what is published unless it was overtaken.
- `Skills`: `HashesAreOlder`, the hashes of the watcher are of no later edit than the disk;
  `ReloadedIsSeen`, a skill that no longer waits for its reload is served as new as its hashes,
  and what is served without an excuse is a skill; `ListsAreListed`, only a runtime that reads
  a configuration has entries in it that are no list.
- `SystemPrompt`: `CopiesAreSound` (an absent copy is empty, the spare has no role, a text
  without a role has no last section of one, a seed is of a copy on the volume), `NotesAreHome` (a note is in the copy it is said to be in; one in
  the seed and in the copy came there with it) and `SeedIsRecorded` (the copy on the volume
  starts with its seed as long as it has a role), from which the prompt's three promises follow.
- `Attachments`: `CacheIsMoved`, no torn file is ever in the cache, and what is being
  acknowledged is there or the agent has removed it; `CopiesInOrder`, the copies of a turn are
  made after its reply, each once, so that a later turn overwrites none.
- `Publishing`: `HooksInOrder`, a hook works for a branch of the agent's, the one that is
  checked out unless something was checked out in its time, and in calm what it pushed is
  what the remote has; `CalmIsUnmoved`.
- `LocalEvents`: `ReadIsAllowed`, a post that is being read has the token of its lane
  and is not too long, and it is read as long as chunks of it are missing.

Two assumptions were named for these proofs. `Unset`, the value of a signal before
it is set, is neither of the two it is set to; and a branch of the agent's is not named `main`,
`staging` or `HEAD`, since `Branch` stands for those the hook does not turn away.

Only model-checked: the liveness properties (`TurnsEnd`, `HarvestGoesOn`, `DigestGoesOn`,
`CatchesUp`, `DaemonsGoOn`, `FailingIsDisabled`), because the prover has no support for
fairness. Every property that is proved was checked by TLC first, and the
inductive invariants too but for two conjuncts added while proving (in `ProvisioningProofs`).

## Findings

Each violation run has its shortest counterexample; `PROJECT.json` quotes the line.

- `SlotReleased`: a cancellation in the first await of `finally`
  (`a2a_executor.py:1346`) skips the assignment that frees the slot, and leaves the
  conversation occupied for good. The comment at 1358 says it cannot.
- `DeletedStaysDeleted`: every write and the whole copy succeed, but the list of files
  carried over to the durable root has `.schedule-tombstones.json` with a dot
  (`trigger_state.py:84`), the store writes it without; the next seeding brings back what
  the user deleted. The docstring of
  `upsert_template` says it is not re-seeded.

## Divergences

What the code does and a comment, docstring or name lets one not expect. The models do
what the code does and the properties are stated so that they hold of it; where a
property needs an exemption, this is the reason. Each was seen in a counterexample or
while translating the lines.

Turns and their inputs:

- A stopped turn goes on with another pass when a preemption is pending
  (`a2a_executor.py:1018`), or when the stream ends first and the drain clears the event
  (`runtime_inbox.py:195`, `269`).
- A message acknowledged as queued after the last drain, or behind a turn that fails,
  stays in the queue until a later message of the conversation starts a turn
  (`a2a_executor.py:674`, `1069`).
- The replay guard judges a pass by the message that began the turn, so the answer to a
  user who preempted an idle turn may be suppressed (`a2a_executor.py:1204`).
- A routine ping that is dropped has already consumed the delegation results put in
  front of its text (`a2a_executor.py:517`).
- While two turns overlap the lease is said to stay dated to the older one
  (`turn_lease.py:663`); a native turn resets it whatever runs (`a2a_executor.py:812`).
- The snapshot for a trigger daemon is said never to touch the lease
  (`channel_events.py:226`), but feeds it from the activity file (155); before the first
  baseline the mere existence of the file then counts as activity, which
  `turn_lease.py:322` means to exclude.
- A line is marked as written when it enters the file buffer; if the flush fails it is
  announced and buried unwritten (`heartbeat.py:1074`). The branch for a 401 is never
  taken, because nothing raises for the status (`heartbeat.py:664-676`).
- A provider that sits out its quarantine looks like a section that vanished, and the
  rest is posted again on every tick it is skipped (`idle_digest/assembler.py:91`). What
  a section says after the post becomes its baseline, though the agent never saw a change
  made during the turn (`idle_digest/controller.py:180-239`).
- An upload whose bytes could not be written is said to be tried again by a later poll
  (`inbox_uploads.py:231`, `470`), but the cursor passes its row (`inbox.py:855`). A row
  counts as handled once it is in the queue, so a restart loses what was not popped.

Daemons, schedules, boot:

- The flag that says the runtime has its own scheduler follows the installed
  plugins, not the daemons that run (`daemon_runtime.py:126`, `plugin_daemons.py:292`),
  so a removed trigger plugin and the platform may both fire.
- The carry-over of the schedules is said to leave the durable directory empty when it
  fails (`trigger_state.py:137`); a copy that fails half way leaves half a grid, which
  wins at every later boot, and after one that copied nothing the next seeding writes the
  file that keeps the copy from being tried again (152). The calls may also fall back to
  the legacy root at any time (`plugin_state.py:224-257`), where the user then edits a
  grid that the durable one replaces when it is back.
- A streak of errors is broken by a good run only if that run's save succeeds
  (`a2a_executor.py:398`), and each root counts for itself.
- A directory nobody declared is said to be no reason for a swap
  (`plugin_sources.py:604`, `1497`); once a pass with a failed source has carried it over,
  the marker (1501) lists it as declared and the next pass swaps to remove it.
- The state written while the kernel was switched off is said to win afterwards
  (`mailbox_dir.py:606`). A workspace that had nothing to migrate keeps no marker (706),
  so the pass after the opt-out is a first one, which overwrites nothing. Notes made with
  the kernel off are lost when the configuration is rendered again
  (`mailbox_dir.py:695-703`, `prompt.py:103-105`).
- The first prompt is sent again when `/configs` turns from read-only to writable or back
  between two boots: the marker is looked for where this boot would write it
  (`initial_prompt.py:33`).
- The poller is said not to poll until the listener is bound, so that nothing is posted to a
  closed socket (`main.py:580-583`); on the way down the sockets are closed first (2122) and
  the poller goes on, with the same loss.
- When `AGENTS.md` is missing its fallback is not demoted (`prompt.py:546-566` against
  `665-675`). A persona whose `prompt_files` name `system-prompt.md` beside others grows
  with every boot (`adapter_base.py:805`).

Services:

- The queue of an event stream is registered before the generator that removes it is
  entered, and its first `yield` is outside the `try` (`a2a_mcp_server.py:969-974`): a host
  that leaves there leaves the queue, which then takes answers nobody reads.
- A Stop kills only the leader of the group (`runtime_inbox.py:272-334`), which the time-out
  of `run_code` does not (`sandbox.py:192-197`), and after its grace period whatever process
  the conversation has by then (`a2a_executor.py:1410-1428`). Of two scripts in one
  conversation it reaches the later one (`runtime_inbox.py:147`).
- What follows the current role in the memory is said to be what a writer appended
  (`prompt.py:73`), and is asked before the seed: when a role loses its last section, that
  section of the untouched photocopy follows the new role as memory. Every ambiguous case is
  said to keep the content (`prompt.py:84-85`), but a file no writer is listed for is dropped
  without a seed (107), also when the hook of the base adapter appended to it: the caller
  names the file (`adapter_base.py:869`).
- An entry of a runtime's configuration that is not a list is replaced by one, with what it
  held (`skills_render.py:328-343`).
- The skills of plugins are never loaded through `_common_setup`
  (`adapter_base.py:1050`, `skill_loader/loader.py:175`); a hot reload drops the tool
  `route_task_to_team` (`main.py:1473-1480` against `adapter_base.py:1073`); the watcher
  takes its baseline after the load (`skill_loader/watcher.py:86`) and commits the next
  one before the reload (158); a skill skipped at boot never enters (`main.py:1460`). An
  error of the scanner lets a skill through (`builtin_tools/security_scan.py:318`).
- The cache of attachments is keyed by URI and name (`executor_helpers.py:1185`), so one
  file attached under two names is fetched twice, the second time after its
  acknowledgement. `gh pr create` names no branch (1012), so a pull request is for what
  is checked out by then, and its title is the newest commit's, not the oldest's (1001).
- The stamp of a channel message keeps the source type the sender wrote
  (`channel_events.py:356-363`).
- `auto_push_hook` is called by templates only, and the consolidation loop is started by
  nothing.

## Not modelled

Of the executor: the reporting of synchronous delegations by tools, the mode with the
non-blocking flag off. Of the harvester: a row that flips from completed to failed,
rows of other workspaces, the limit of 4096 on the tombstones, a late local "queued"
that overwrites what the platform finished, the garbage a torn write leaves (the reader
skips lines it cannot parse), the message to the user, and `register_awaited_delegation`,
which nothing calls. Of the idle digest: the byte budget that cuts sections off, a
provider with several sections (none in the repository has), the ban of providers that
claim a reserved id, the markers of degraded sections, the new text of a goal that was
due already, the forwarding of the reply. Of the breaker: the delivered keys (`evaluate`
is never called with one) and the wedge flag, which an adapter may clear while the
breaker stays open. Of the lease: the pruning of other processes' files. Of the inbox:
the peer records in a message. Of the supervisor: logs and environment beyond the token; `SeesExit` takes the end of a
child and its removal from the table for one step, since what `stop()` could take in between
is a process that is dead already.
Of the schedules: cron expressions and time zones, which are pure functions of calendar
fields, the journal of runs, the operator's override of the root, a root that changes
within one call, and a daemon whose socket failed, which finds its root itself. Of the boot: routes, smoke mode, reload of the
configuration. Of the plugins: archives, authentication, settings. Of the tools: the
desktop tools (one request each), telemetry and compliance filters.

Not at all: wording and branding, schemas, headers and redaction, budgets and
compaction of a conversation, the doctor and the resolution of CLI targets, the
consolidation loop (nothing starts it), and the release and CI scripts. They are pure
functions of their input or a single request, and keep no state another part reads.

What the repository only uses is environment: the platform and its database, the control
plane, git and gh, the MCP hosts, the file system, the agent framework, the editors.

## Plan

What remains, in order of what it would add:

1. A composition of `DelegationHarvest`, `TurnExecutor` and `TurnLease` over one results
   file and one lease, and of `Schedules` with the executor's outcomes.
2. An abstract specification of the inbox (a lossy queue with at-least-once delivery) and
   of the supervisor, with their refinements.
3. The facts without fairness that the liveness properties rest on: for each of them a measure
   that no step increases and the fair ones decrease.
4. `cronspec` against its definition on a small calendar, and the byte budget of the digest.
5. The wedge flag with its two owners.
